---- MODULE Spec2Model ----
(***************************************************************************)
(* Model of the backtesting engine, backend/app/backtesting/engine.py:     *)
(* BacktestEngine with load_historical_data, place_order, _execute_order,  *)
(* _update_position, _update_portfolio_value and the replay loop of        *)
(* run_backtest.  Money and prices are exact rationals <<num, den>>;       *)
(* quantities and timestamps are integers.                                 *)
(***************************************************************************)
EXTENDS Integers, Sequences, FiniteSets, TLC

(***************************************************************************)
(* Bounds of the model.                                                    *)
(***************************************************************************)
MaxTime == 3
MaxPrice == 2
MaxQty == 2
MaxOrders == 2
MaxRuns == 2
MaxRaises == 1
MaxCurve == 4
MaxValue == 3
MaxThreads == 2
MaxUpdates == 4
MaxTrades == 5

(***************************************************************************)
(* Exact rational arithmetic standing for Python floats.                   *)
(***************************************************************************)
Abs(x) == IF x < 0 THEN -x ELSE x

RECURSIVE GCD(_, _)
GCD(a, b) == IF b = 0 THEN a ELSE GCD(b, a % b)

Rat(n, d) ==
    LET s == IF d < 0 THEN -1 ELSE 1
        g == GCD(Abs(n), Abs(d))
    IN  IF n = 0 THEN <<0, 1>> ELSE <<(s * n) \div g, (s * d) \div g>>

Num(x) == x[1]
Den(x) == x[2]
Zero == <<0, 1>>
One == <<1, 1>>
FromInt(k) == <<k, 1>>
RAdd(x, y) == Rat(x[1] * y[2] + y[1] * x[2], x[2] * y[2])
RSub(x, y) == Rat(x[1] * y[2] - y[1] * x[2], x[2] * y[2])
RMul(x, y) == Rat(x[1] * y[1], x[2] * y[2])
RDiv(x, y) == Rat(x[1] * y[2], x[2] * y[1])
RScale(x, k) == Rat(x[1] * k, x[2])
RLe(x, y) == x[1] * y[2] <= y[1] * x[2]
RLt(x, y) == x[1] * y[2] < y[1] * x[2]
RMin(x, y) == IF RLe(x, y) THEN x ELSE y
RMax(x, y) == IF RLe(y, x) THEN x ELSE y

(***************************************************************************)
(* Enumerations and the None value.                                        *)
(***************************************************************************)
None == <<>>
BUY == "buy"
SELL == "sell"
MARKET == "market"
LIMIT == "limit"
STOP == "stop"
STOP_LIMIT == "stop_limit"

Symbols == {"A", "B"}
Timestamps == 1..MaxTime
Prices == 1..MaxPrice
RequiredColumns == {"timestamp", "open", "high", "low", "close", "volume"}

VARIABLES
    initial_capital,    \* self.initial_capital
    commission_rate,    \* self.commission_rate
    slippage_rate,      \* self.slippage_rate
    current_capital,    \* self.current_capital
    positions,          \* self.positions: symbol -> BacktestPosition
    orders,             \* self.orders: list of BacktestOrder
    equity_curve,       \* self.equity_curve
    positions_history,  \* self.positions_history
    daily_returns,      \* self.daily_returns
    historical_data,    \* self.historical_data: symbol -> sorted rows
    load_result,        \* the last load_historical_data call of the run in
                        \* progress or since the last run, and what it returned
    pc,                 \* position inside run_backtest, "idle" outside it
    start_date,         \* arguments of the running / last run_backtest
    end_date,
    timestamps,         \* the sorted, filtered clock of the run
    i,                  \* index of the current timestamp in timestamps
    cursor,             \* index of the current order in "for order in self.orders"
    result,             \* the BacktestResult last returned, None before
    strategy,           \* the strategy callback: what it does at each timestamp
    trace,              \* per order: when placed, when filled, how often tried
    runs,               \* per finished run: its arguments, data and result
    server              \* the threads that call into the engine: which one is
                        \* running, and the position of each suspended one

engine == <<initial_capital, commission_rate, slippage_rate, current_capital,
            positions, orders, equity_curve, positions_history, daily_returns>>
control == <<pc, start_date, end_date, timestamps, i, cursor, result>>
vars == <<engine, historical_data, load_result, control, strategy, trace, runs, server>>

(***************************************************************************)
(* BacktestOrder and BacktestPosition.                                     *)
(***************************************************************************)
BacktestOrder(timestamp, symbol, side, order_type, quantity, price, stop_price) ==
    [timestamp |-> timestamp, symbol |-> symbol, side |-> side,
     order_type |-> order_type, quantity |-> quantity, price |-> price,
     stop_price |-> stop_price, filled_price |-> None, filled_quantity |-> 0,
     status |-> "pending", commission |-> Zero, slippage |-> Zero]

BacktestPosition ==
    [quantity |-> 0, avg_price |-> Zero, unrealized_pnl |-> Zero,
     realized_pnl |-> Zero, market_value |-> Zero]

(***************************************************************************)
(* place_order: append a pending order to self.orders.                     *)
(***************************************************************************)
place_order(os, timestamp, req) ==
    Append(os, BacktestOrder(timestamp, req.symbol, req.side, req.order_type,
                             req.quantity, req.price, req.stop_price))

(***************************************************************************)
(* _update_position(symbol, quantity_change, price).                       *)
(***************************************************************************)
\* Mutant: a position that became flat keeps its last market value and
\* unrealized P&L.
MarkAfterFillKeepsStale(p, price) ==
    IF p.quantity # 0
    THEN [p EXCEPT
            !.market_value = RScale(price, p.quantity),
            !.unrealized_pnl =
                IF p.quantity > 0
                THEN RScale(RSub(price, p.avg_price), p.quantity)
                ELSE RScale(RSub(p.avg_price, price), Abs(p.quantity))]
    ELSE p

MarkAfterFill(p, price) ==
    IF p.quantity # 0
    THEN [p EXCEPT
            !.market_value = RScale(price, p.quantity),
            !.unrealized_pnl =
                IF p.quantity > 0
                THEN RScale(RSub(price, p.avg_price), p.quantity)
                ELSE RScale(RSub(p.avg_price, price), Abs(p.quantity))]
    ELSE [p EXCEPT !.market_value = Zero, !.unrealized_pnl = Zero]

\* Mutant: a buy that covers a short and opens a long keeps the old average.
ApplyBuyFlipKeepsAvg(p, qc, price) ==
    IF p.quantity >= 0
    THEN LET total_cost == RAdd(RScale(p.avg_price, p.quantity), RScale(price, qc))
             q == p.quantity + qc
         IN  [p EXCEPT !.quantity = q,
                       !.avg_price = IF q > 0 THEN RDiv(total_cost, FromInt(q)) ELSE Zero]
    ELSE IF Abs(p.quantity) >= qc
         THEN [p EXCEPT
                 !.realized_pnl = RAdd(@, RScale(RSub(p.avg_price, price), qc)),
                 !.quantity = @ + qc]
         ELSE [p EXCEPT
                 !.realized_pnl = RAdd(@, RScale(RSub(p.avg_price, price), Abs(p.quantity))),
                 !.quantity = qc - Abs(p.quantity)]

ApplyBuy(p, qc, price) ==
    IF p.quantity >= 0
    THEN LET total_cost == RAdd(RScale(p.avg_price, p.quantity), RScale(price, qc))
             q == p.quantity + qc
         IN  [p EXCEPT !.quantity = q,
                       !.avg_price = IF q > 0 THEN RDiv(total_cost, FromInt(q)) ELSE Zero]
    ELSE IF Abs(p.quantity) >= qc
         THEN [p EXCEPT
                 !.realized_pnl = RAdd(@, RScale(RSub(p.avg_price, price), qc)),
                 !.quantity = @ + qc]
         ELSE [p EXCEPT
                 !.realized_pnl = RAdd(@, RScale(RSub(p.avg_price, price), Abs(p.quantity))),
                 !.quantity = qc - Abs(p.quantity),
                 !.avg_price = price]

\* Mutant: a sell that reduces a long reprices what remains at the fill price.
ApplySellRepricesRemainder(p, qc, price) ==
    IF p.quantity > 0
    THEN IF p.quantity >= qc
         THEN [p EXCEPT
                 !.realized_pnl = RAdd(@, RScale(RSub(price, p.avg_price), qc)),
                 !.quantity = @ - qc,
                 !.avg_price = price]
         ELSE [p EXCEPT
                 !.realized_pnl = RAdd(@, RScale(RSub(price, p.avg_price), p.quantity)),
                 !.quantity = -(qc - p.quantity),
                 !.avg_price = price]
    ELSE LET total_cost == RAdd(RScale(p.avg_price, Abs(p.quantity)), RScale(price, qc))
             q == p.quantity - qc
         IN  [p EXCEPT !.quantity = q,
                       !.avg_price = IF q # 0 THEN RDiv(total_cost, FromInt(Abs(q))) ELSE Zero]

ApplySell(p, qc, price) ==
    IF p.quantity > 0
    THEN IF p.quantity >= qc
         THEN [p EXCEPT
                 !.realized_pnl = RAdd(@, RScale(RSub(price, p.avg_price), qc)),
                 !.quantity = @ - qc]
         ELSE [p EXCEPT
                 !.realized_pnl = RAdd(@, RScale(RSub(price, p.avg_price), p.quantity)),
                 !.quantity = -(qc - p.quantity),
                 !.avg_price = price]
    ELSE LET total_cost == RAdd(RScale(p.avg_price, Abs(p.quantity)), RScale(price, qc))
             q == p.quantity - qc
         IN  [p EXCEPT !.quantity = q,
                       !.avg_price = IF q # 0 THEN RDiv(total_cost, FromInt(Abs(q))) ELSE Zero]

update_position(ps, symbol, quantity_change, price) ==
    LET p0 == IF symbol \in DOMAIN ps THEN ps[symbol] ELSE BacktestPosition
        p1 == IF quantity_change > 0
              THEN ApplyBuy(p0, quantity_change, price)
              ELSE ApplySell(p0, Abs(quantity_change), price)
        p2 == MarkAfterFill(p1, price)
    IN  [s \in DOMAIN ps \cup {symbol} |-> IF s = symbol THEN p2 ELSE ps[s]]

(***************************************************************************)
(* _execute_order(order, current_price, high_price, low_price).            *)
(* ExecutionPrice is the "determine execution price" part: the price, or   *)
(* the reason why the method returns False before the capital check.       *)
(* Comparing a price with a missing limit price (None) raises TypeError,   *)
(* which the method's own except clause turns into "return False".         *)
(***************************************************************************)
\* Mutant: an executable limit order is filled at the bar's extreme instead
\* of min/max with the limit price.
ExecutionPriceAtExtreme(order, current_price, high_price, low_price) ==
    IF order.order_type = MARKET
    THEN IF order.side = BUY
         THEN [kind |-> "price", price |-> RMul(high_price, RAdd(One, slippage_rate))]
         ELSE [kind |-> "price", price |-> RMul(low_price, RSub(One, slippage_rate))]
    ELSE IF order.order_type = LIMIT
         THEN IF order.price = None
              THEN [kind |-> "error", price |-> None]
              ELSE IF order.side = BUY /\ RLe(current_price, order.price)
                   THEN [kind |-> "price", price |-> high_price]
                   ELSE IF order.side = SELL /\ RLe(order.price, current_price)
                        THEN [kind |-> "price", price |-> low_price]
                        ELSE [kind |-> "not_executable", price |-> None]
         ELSE [kind |-> "unsupported", price |-> None]

\* Mutant: a limit order is executable as soon as the bar's range touches
\* its limit price, whatever the close.
ExecutionPriceOnTouch(order, current_price, high_price, low_price) ==
    IF order.order_type = MARKET
    THEN IF order.side = BUY
         THEN [kind |-> "price", price |-> RMul(high_price, RAdd(One, slippage_rate))]
         ELSE [kind |-> "price", price |-> RMul(low_price, RSub(One, slippage_rate))]
    ELSE IF order.order_type = LIMIT
         THEN IF order.price = None
              THEN [kind |-> "error", price |-> None]
              ELSE IF order.side = BUY /\ RLe(low_price, order.price)
                   THEN [kind |-> "price", price |-> RMin(order.price, high_price)]
                   ELSE IF order.side = SELL /\ RLe(order.price, high_price)
                        THEN [kind |-> "price", price |-> RMax(order.price, low_price)]
                        ELSE [kind |-> "not_executable", price |-> None]
         ELSE [kind |-> "unsupported", price |-> None]

\* Mutant: a market order is filled at the bar's close, with slippage.
ExecutionPriceAtClose(order, current_price, high_price, low_price) ==
    IF order.order_type = MARKET
    THEN IF order.side = BUY
         THEN [kind |-> "price", price |-> RMul(current_price, RAdd(One, slippage_rate))]
         ELSE [kind |-> "price", price |-> RMul(current_price, RSub(One, slippage_rate))]
    ELSE IF order.order_type = LIMIT
         THEN IF order.price = None
              THEN [kind |-> "error", price |-> None]
              ELSE IF order.side = BUY /\ RLe(current_price, order.price)
                   THEN [kind |-> "price", price |-> RMin(order.price, high_price)]
                   ELSE IF order.side = SELL /\ RLe(order.price, current_price)
                        THEN [kind |-> "price", price |-> RMax(order.price, low_price)]
                        ELSE [kind |-> "not_executable", price |-> None]
         ELSE [kind |-> "unsupported", price |-> None]

\* Mutant: every order type other than LIMIT is filled like a market order.
ExecutionPriceStopAsMarket(order, current_price, high_price, low_price) ==
    IF order.order_type = LIMIT
    THEN IF order.price = None
         THEN [kind |-> "error", price |-> None]
         ELSE IF order.side = BUY /\ RLe(current_price, order.price)
              THEN [kind |-> "price", price |-> RMin(order.price, high_price)]
              ELSE IF order.side = SELL /\ RLe(order.price, current_price)
                   THEN [kind |-> "price", price |-> RMax(order.price, low_price)]
                   ELSE [kind |-> "not_executable", price |-> None]
    ELSE IF order.side = BUY
         THEN [kind |-> "price", price |-> RMul(high_price, RAdd(One, slippage_rate))]
         ELSE [kind |-> "price", price |-> RMul(low_price, RSub(One, slippage_rate))]

\* Mutant: a limit order without a price is filled at the close.
ExecutionPriceDefaultsToClose(order, current_price, high_price, low_price) ==
    IF order.order_type = MARKET
    THEN IF order.side = BUY
         THEN [kind |-> "price", price |-> RMul(high_price, RAdd(One, slippage_rate))]
         ELSE [kind |-> "price", price |-> RMul(low_price, RSub(One, slippage_rate))]
    ELSE IF order.order_type = LIMIT
         THEN IF order.price = None
              THEN [kind |-> "price", price |-> current_price]
              ELSE IF order.side = BUY /\ RLe(current_price, order.price)
                   THEN [kind |-> "price", price |-> RMin(order.price, high_price)]
                   ELSE IF order.side = SELL /\ RLe(order.price, current_price)
                        THEN [kind |-> "price", price |-> RMax(order.price, low_price)]
                        ELSE [kind |-> "not_executable", price |-> None]
         ELSE [kind |-> "unsupported", price |-> None]

ExecutionPrice(order, current_price, high_price, low_price) ==
    IF order.order_type = MARKET
    THEN IF order.side = BUY
         THEN [kind |-> "price", price |-> RMul(high_price, RAdd(One, slippage_rate))]
         ELSE [kind |-> "price", price |-> RMul(low_price, RSub(One, slippage_rate))]
    ELSE IF order.order_type = LIMIT
         THEN IF order.price = None
              THEN [kind |-> "error", price |-> None]
              ELSE IF order.side = BUY /\ RLe(current_price, order.price)
                   THEN [kind |-> "price", price |-> RMin(order.price, high_price)]
                   ELSE IF order.side = SELL /\ RLe(order.price, current_price)
                        THEN [kind |-> "price", price |-> RMax(order.price, low_price)]
                        ELSE [kind |-> "not_executable", price |-> None]
         ELSE [kind |-> "unsupported", price |-> None]

\* Mutant: a SELL is only checked for an existing position, not for its size.
CapitalCheckIgnoresSize(order, execution_price, capital, ps) ==
    IF order.side = BUY
    THEN IF RLt(capital, RScale(execution_price, order.quantity))
         THEN "insufficient_capital" ELSE "ok"
    ELSE IF order.symbol \notin DOMAIN ps
         THEN "insufficient_position" ELSE "ok"

\* Mutant: a SELL is checked against the position held when the step began
\* (the one in the last position snapshot), not the one left by the fills
\* made earlier in the step.
CapitalCheckAtStepStart(order, execution_price, capital, ps) ==
    IF order.side = BUY
    THEN IF RLt(capital, RScale(execution_price, order.quantity))
         THEN "insufficient_capital" ELSE "ok"
    ELSE LET held == IF positions_history = <<>> THEN <<>>
                     ELSE positions_history[Len(positions_history)].positions
         IN  IF order.symbol \notin DOMAIN held \/ held[order.symbol].quantity < order.quantity
             THEN "insufficient_position" ELSE "ok"

\* Mutant: a BUY is filled whatever the cash.
CapitalCheckIgnoresCash(order, execution_price, capital, ps) ==
    IF order.side = BUY THEN "ok"
    ELSE IF order.symbol \notin DOMAIN ps \/ ps[order.symbol].quantity < order.quantity
         THEN "insufficient_position" ELSE "ok"

\* The "enough capital/position" check, lines 206-216: the reason of a
\* rejection, or "ok".
CapitalCheck(order, execution_price, capital, ps) ==
    IF order.side = BUY
    THEN IF RLt(capital, RScale(execution_price, order.quantity))
         THEN "insufficient_capital" ELSE "ok"
    ELSE IF order.symbol \notin DOMAIN ps \/ ps[order.symbol].quantity < order.quantity
         THEN "insufficient_position" ELSE "ok"

\* Mutant: the commission is computed but not taken from the cash.
FillWithoutCommission(order, execution_price, capital, ps) ==
    LET commission == RMul(RScale(execution_price, order.quantity), commission_rate)
        filled == [order EXCEPT !.filled_price = execution_price,
                                !.filled_quantity = order.quantity,
                                !.status = "filled",
                                !.commission = commission]
        gross == RScale(execution_price, order.quantity)
    IN  IF order.side = BUY
        THEN [outcome |-> "filled", order |-> filled,
              capital |-> RSub(capital, gross),
              positions |-> update_position(ps, order.symbol, order.quantity, execution_price)]
        ELSE [outcome |-> "filled", order |-> filled,
              capital |-> RAdd(capital, gross),
              positions |-> update_position(ps, order.symbol, -order.quantity, execution_price)]

\* Mutant: the fill does not set the order's status.
FillKeepsPending(order, execution_price, capital, ps) ==
    LET commission == RMul(RScale(execution_price, order.quantity), commission_rate)
        filled == [order EXCEPT !.filled_price = execution_price,
                                !.filled_quantity = order.quantity,
                                !.commission = commission]
        gross == RScale(execution_price, order.quantity)
    IN  IF order.side = BUY
        THEN [outcome |-> "filled", order |-> filled,
              capital |-> RSub(capital, RAdd(gross, commission)),
              positions |-> update_position(ps, order.symbol, order.quantity, execution_price)]
        ELSE [outcome |-> "filled", order |-> filled,
              capital |-> RAdd(capital, RSub(gross, commission)),
              positions |-> update_position(ps, order.symbol, -order.quantity, execution_price)]

\* "Execute the order", lines 218-232.
Fill(order, execution_price, capital, ps) ==
    LET commission == RMul(RScale(execution_price, order.quantity), commission_rate)
        filled == [order EXCEPT !.filled_price = execution_price,
                                !.filled_quantity = order.quantity,
                                !.status = "filled",
                                !.commission = commission]
        gross == RScale(execution_price, order.quantity)
    IN  IF order.side = BUY
        THEN [outcome |-> "filled", order |-> filled,
              capital |-> RSub(capital, RAdd(gross, commission)),
              positions |-> update_position(ps, order.symbol, order.quantity, execution_price)]
        ELSE [outcome |-> "filled", order |-> filled,
              capital |-> RAdd(capital, RSub(gross, commission)),
              positions |-> update_position(ps, order.symbol, -order.quantity, execution_price)]

execute_order(order, current_price, high_price, low_price, capital, ps) ==
    LET unchanged(why) == [outcome |-> why, order |-> order,
                           capital |-> capital, positions |-> ps]
        ep == ExecutionPrice(order, current_price, high_price, low_price)
    IN  IF order.status # "pending" THEN unchanged("not_pending")
        ELSE IF ep.kind # "price" THEN unchanged(ep.kind)
        ELSE LET check == CapitalCheck(order, ep.price, capital, ps)
             IN  IF check # "ok" THEN unchanged(check)
                 ELSE Fill(order, ep.price, capital, ps)

(***************************************************************************)
(* Helpers over sets and sequences.                                        *)
(***************************************************************************)
RECURSIVE SortedSeq(_)
SortedSeq(S) ==
    IF S = {} THEN <<>>
    ELSE LET m == CHOOSE x \in S : \A y \in S : x <= y
         IN  <<m>> \o SortedSeq(S \ {m})

RECURSIVE RSum(_, _)
RSum(S, f) ==
    IF S = {} THEN Zero
    ELSE LET x == CHOOSE y \in S : TRUE
         IN  RAdd(f[x], RSum(S \ {x}, f))

\* data.sort_values('timestamp'): a stable insertion sort of the rows.
RECURSIVE InsertRow(_, _)
InsertRow(sorted, row) ==
    IF sorted = <<>> THEN <<row>>
    ELSE IF row.timestamp < Head(sorted).timestamp THEN <<row>> \o sorted
    ELSE <<Head(sorted)>> \o InsertRow(Tail(sorted), row)

RECURSIVE sort_values(_)
sort_values(rows) ==
    IF rows = <<>> THEN <<>>
    ELSE InsertRow(sort_values(SubSeq(rows, 1, Len(rows) - 1)), rows[Len(rows)])

(***************************************************************************)
(* The per-timestamp view of the loaded data, lines 386-413.               *)
(***************************************************************************)
\* Mutant: the engine has an (empty) data store from the start.
HasDataAlways == TRUE

HasData == DOMAIN historical_data # {}

all_timestamps ==
    UNION {{historical_data[s][k].timestamp : k \in 1..Len(historical_data[s])} :
           s \in DOMAIN historical_data}

\* Mutant: the clock is not filtered by the date range.
ClockUnfiltered(start, end) == SortedSeq(all_timestamps)

Clock(start, end) == SortedSeq({ts \in all_timestamps : start <= ts /\ ts <= end})

HasRow(s, timestamp) ==
    \E k \in 1..Len(historical_data[s]) : historical_data[s][k].timestamp = timestamp

\* symbol_data.iloc[0]: the first row of the symbol at the timestamp.
RowAt(s, timestamp) ==
    LET k == CHOOSE n \in 1..Len(historical_data[s]) :
                 /\ historical_data[s][n].timestamp = timestamp
                 /\ \A m \in 1..(n - 1) : historical_data[s][m].timestamp # timestamp
    IN  historical_data[s][k]

price_data(timestamp) ==
    [s \in {x \in DOMAIN historical_data : HasRow(x, timestamp)} |->
        LET row == RowAt(s, timestamp)
        IN  [open |-> FromInt(row.open), high |-> FromInt(row.high),
             low |-> FromInt(row.low), close |-> FromInt(row.close),
             volume |-> row.volume]]

current_prices(timestamp) ==
    LET pd == price_data(timestamp) IN [s \in DOMAIN pd |-> pd[s].close]

(***************************************************************************)
(* _update_portfolio_value(timestamp, prices).                             *)
(***************************************************************************)
\* Mutant: marking a position also moves its cost basis to the close.
MarkToMarketRepricesBasis(ps, prices) ==
    [s \in DOMAIN ps |->
        IF s \in DOMAIN prices
        THEN [ps[s] EXCEPT !.market_value = RScale(prices[s], ps[s].quantity),
                           !.unrealized_pnl = Zero,
                           !.avg_price = prices[s]]
        ELSE ps[s]]

\* The mark-to-market loop, lines 316-324.
MarkToMarket(ps, prices) ==
    [s \in DOMAIN ps |->
        IF s \in DOMAIN prices
        THEN LET p == ps[s]
                 mv == RScale(prices[s], p.quantity)
             IN  IF p.quantity > 0
                 THEN [p EXCEPT !.market_value = mv,
                                !.unrealized_pnl = RScale(RSub(prices[s], p.avg_price), p.quantity)]
                 ELSE IF p.quantity < 0
                 THEN [p EXCEPT !.market_value = mv,
                                !.unrealized_pnl = RScale(RSub(p.avg_price, prices[s]), Abs(p.quantity))]
                 ELSE [p EXCEPT !.market_value = mv]
        ELSE ps[s]]

\* The equity snapshot, lines 326-342; ps is already marked to market.
EquitySnapshot(timestamp, capital, ps, prices) ==
    LET priced == DOMAIN ps \cap DOMAIN prices
        mvOf == [s \in priced |-> ps[s].market_value]
        upOf == [s \in priced |-> ps[s].unrealized_pnl]
        rpOf == [s \in priced |-> ps[s].realized_pnl]
        total_market_value == RSum(priced, mvOf)
        total_unrealized_pnl == RSum(priced, upOf)
        total_realized_pnl == RSum(priced, rpOf)
    IN  [timestamp |-> timestamp,
         portfolio_value |-> RAdd(capital, total_market_value),
         cash |-> capital,
         market_value |-> total_market_value,
         realized_pnl |-> total_realized_pnl,
         unrealized_pnl |-> total_unrealized_pnl,
         total_pnl |-> RAdd(total_realized_pnl, total_unrealized_pnl)]

\* The positions-history entry, lines 344-359.
PositionsSnapshot(timestamp, ps) ==
    [timestamp |-> timestamp,
     positions |-> [s \in {x \in DOMAIN ps : ps[x].quantity # 0} |->
                        [quantity |-> ps[s].quantity, avg_price |-> ps[s].avg_price,
                         market_value |-> ps[s].market_value,
                         unrealized_pnl |-> ps[s].unrealized_pnl,
                         realized_pnl |-> ps[s].realized_pnl]]]

\* The daily return, lines 361-365; curve already holds the new snapshot.
DailyReturns(returns, curve) ==
    IF Len(curve) > 1
    THEN LET portfolio_value == curve[Len(curve)].portfolio_value
             prev_value == curve[Len(curve) - 1].portfolio_value
         IN  Append(returns, IF RLt(Zero, prev_value)
                             THEN RDiv(RSub(portfolio_value, prev_value), prev_value)
                             ELSE Zero)
    ELSE returns

(***************************************************************************)
(* Inputs: data frames, order requests, engine parameters.                 *)
(***************************************************************************)
Bar(o, h, l, c) == [open |-> o, high |-> h, low |-> l, close |-> c, volume |-> 1]

\* All well-formed bars over Prices: low <= open, close <= high.
BarSet ==
    {b \in [open : Prices, high : Prices, low : Prices, close : Prices, volume : {1}] :
        /\ b.low <= b.open /\ b.open <= b.high
        /\ b.low <= b.close /\ b.close <= b.high}

Row(timestamp, bar) ==
    [timestamp |-> timestamp, open |-> bar.open, high |-> bar.high,
     low |-> bar.low, close |-> bar.close, volume |-> bar.volume]

\* Sequences without repetition over the set S (S is a set of timestamps).
RECURSIVE Orderings(_)
Orderings(S) ==
    IF S = {} THEN {<<>>}
    ELSE UNION {{<<x>> \o rest : rest \in Orderings(S \ {x})} : x \in S}

\* Frames with all required columns: for every series (a function from the
\* timestamps T to bars) of the set, its rows in any order.
FramesOf(T, series) ==
    {[columns |-> RequiredColumns,
      rows |-> [k \in 1..Len(ord) |-> Row(ord[k], choice[ord[k]])]] :
         ord \in Orderings(T), choice \in series}

FramesOver(T, bars) == FramesOf(T, [T -> bars])

\* A frame that lacks the volume column.
BadFrame ==
    [columns |-> RequiredColumns \ {"volume"},
     rows |-> <<Row(1, Bar(1, 1, 1, 1))>>]

Request(symbol, side, quantity, order_type, price, stop_price) ==
    [symbol |-> symbol, side |-> side, quantity |-> quantity,
     order_type |-> order_type, price |-> price, stop_price |-> stop_price]

RECURSIVE SeqsUpTo(_, _)
SeqsUpTo(S, n) ==
    IF n <= 0 THEN {<<>>}
    ELSE LET shorter == SeqsUpTo(S, n - 1)
         IN  shorter \cup {Append(q, x) : q \in {r \in shorter : Len(r) = n - 1}, x \in S}

InitialCapitals == {FromInt(3)}
CommissionRates == {Rat(1, 10)}
SlippageRates == {Rat(1, 10)}

\* The inputs of the main specification: per symbol, the frames it may be
\* loaded with.
MainFrames ==
    [symbol \in Symbols |->
        IF symbol = "A"
        THEN FramesOver(Timestamps, {Bar(1, 2, 1, 2), Bar(1, 1, 1, 1)}) \cup {BadFrame}
        ELSE UNION {FramesOver(T, {Bar(1, 1, 1, 1)}) :
                       T \in {U \in SUBSET Timestamps : Cardinality(U) = MaxTime - 1}}]

MainRequests ==
    {Request("A", side, q, MARKET, None, None) : side \in {BUY, SELL}, q \in 1..MaxQty}
    \cup {Request("B", BUY, 1, MARKET, None, None),
          Request("A", BUY, 1, LIMIT, FromInt(1), None),
          Request("A", BUY, 1, STOP, None, FromInt(1))}

\* <<start_date, end_date>> arguments of run_backtest.
MainRanges == {<<1, MaxTime>>, <<2, MaxTime>>}

(***************************************************************************)
(* The state after BacktestEngine.__init__.                                *)
(***************************************************************************)
NoResult == [status |-> "none"]
NoLoad == [returned |-> "none", symbol |-> "", columns |-> {}]

\* A caller that uses the engine from one thread.
SingleThread == [running |-> 1, saved |-> <<>>]

InitWith(capitals) ==
    /\ initial_capital \in capitals
    /\ commission_rate \in CommissionRates
    /\ slippage_rate \in SlippageRates
    /\ current_capital = initial_capital
    /\ positions = <<>>
    /\ orders = <<>>
    /\ equity_curve = <<>>
    /\ positions_history = <<>>
    /\ daily_returns = <<>>
    /\ historical_data = <<>>
    /\ load_result = NoLoad
    /\ pc = "idle"
    /\ start_date = 0
    /\ end_date = 0
    /\ timestamps = <<>>
    /\ i = 0
    /\ cursor = 0
    /\ result = NoResult
    /\ strategy = <<>>
    /\ trace = <<>>
    /\ runs = <<>>
    /\ server = SingleThread

Init == InitWith(InitialCapitals)

(***************************************************************************)
(* load_historical_data(symbol, data), called while no run is in progress. *)
(* The model loads data before the first run only.                         *)
(***************************************************************************)
\* Mutant: the rows are stored before the columns are checked.
load_historical_data_stores_first(hd, symbol, data) ==
    [returned |-> IF RequiredColumns \subseteq data.columns THEN "true" ELSE "false",
     historical_data |->
        [s \in DOMAIN hd \cup {symbol} |->
            IF s = symbol THEN sort_values(data.rows) ELSE hd[s]]]

\* Lines 118-134: what the call returns and the data the engine holds after it.
load_historical_data(hd, symbol, data) ==
    IF RequiredColumns \subseteq data.columns
    THEN [returned |-> "true",
          historical_data |->
             [s \in DOMAIN hd \cup {symbol} |->
                 IF s = symbol THEN sort_values(data.rows) ELSE hd[s]]]
    ELSE [returned |-> "false", historical_data |-> hd]

LoadHistoricalData(Frames) ==
    /\ pc = "idle"
    /\ runs = <<>>
    /\ \E symbol \in Symbols : \E data \in Frames[symbol] :
          LET r == load_historical_data(historical_data, symbol, data)
          IN  /\ historical_data' = r.historical_data
              /\ load_result' = [returned |-> r.returned, symbol |-> symbol,
                                 columns |-> data.columns]
    /\ UNCHANGED <<engine, control, strategy, trace, runs, server>>

\* load_historical_data called at any moment the single thread allows:
\* between two calls of run_backtest, or by the callback of a run in progress
\* (the callback holds the engine).
LoadAnytime(Frames) ==
    /\ pc \in {"idle", "strategy"}
    /\ \E symbol \in Symbols : \E data \in Frames[symbol] :
          LET r == load_historical_data(historical_data, symbol, data)
          IN  /\ historical_data' = r.historical_data
              /\ load_result' = [returned |-> r.returned, symbol |-> symbol,
                                 columns |-> data.columns]
    /\ UNCHANGED <<engine, control, strategy, trace, runs, server>>

(***************************************************************************)
(* run_backtest(strategy_func, start_date, end_date).                      *)
(* One step of the loop runs the phases of StepPhases in order.            *)
(***************************************************************************)
\* Mutant: the callback runs before the fills of its step.
StepPhasesCallbackFirst == <<"strategy", "execute", "portfolio">>

\* Mutant: the equity snapshot of a step is taken before the step's fills.
StepPhasesSnapshotFirst == <<"portfolio", "execute", "strategy">>

StepPhases == <<"execute", "portfolio", "strategy">>

\* Mutant: the loop starts the same step again and never moves on.
PhaseAfterRepeats(ph, k) ==
    LET n == CHOOSE m \in 1..Len(StepPhases) : StepPhases[m] = ph
    IN  [pc |-> StepPhases[(n % Len(StepPhases)) + 1], i |-> k]

\* The position after the phase ph of step k: the next phase of the step, or
\* the first phase of step k + 1.
PhaseAfter(ph, k) ==
    LET n == CHOOSE m \in 1..Len(StepPhases) : StepPhases[m] = ph
    IN  IF n < Len(StepPhases)
        THEN [pc |-> StepPhases[n + 1], i |-> k]
        ELSE [pc |-> StepPhases[1], i |-> k + 1]

InStep == pc # "idle" /\ i <= Len(timestamps)

\* Mutant: the order list survives the reset.
ResetStateKeepsOrders ==
    [current_capital |-> initial_capital, positions |-> <<>>, orders |-> orders,
     equity_curve |-> <<>>, positions_history |-> <<>>, daily_returns |-> <<>>,
     trace |-> trace]

\* Lines 375-384: the state every run starts from (trace follows orders).
ResetState ==
    [current_capital |-> initial_capital, positions |-> <<>>, orders |-> <<>>,
     equity_curve |-> <<>>, positions_history |-> <<>>, daily_returns |-> <<>>,
     trace |-> <<>>]

\* Lines 372-394: reset the state and build the clock.  Without any loaded
\* data self.historical_data is missing and the AttributeError propagates.
\* Runs after the first one repeat the first run's date range.
RunBacktest(Ranges, nruns) ==
    /\ pc = "idle"
    /\ Len(runs) < nruns
    /\ \E range \in Ranges : LET start == range[1]  end == range[2] IN
          /\ runs # <<>> => (start = runs[1].start_date /\ end = runs[1].end_date)
          /\ start_date' = start
          /\ end_date' = end
          /\ load_result' = NoLoad
          /\ current_capital' = ResetState.current_capital
          /\ positions' = ResetState.positions
          /\ orders' = ResetState.orders
          /\ equity_curve' = ResetState.equity_curve
          /\ positions_history' = ResetState.positions_history
          /\ daily_returns' = ResetState.daily_returns
          /\ trace' = ResetState.trace
          /\ IF HasData
             THEN /\ timestamps' = Clock(start, end)
                  /\ i' = 1
                  /\ cursor' = 1
                  /\ pc' = StepPhases[1]
                  /\ UNCHANGED <<result, runs>>
             ELSE /\ timestamps' = <<>>
                  /\ i' = 0
                  /\ cursor' = 0
                  /\ pc' = "idle"
                  /\ result' = [status |-> "raised"]
                  /\ runs' = Append(runs, [start_date |-> start, end_date |-> end,
                                            data |-> historical_data,
                                            daily_returns |-> <<>>,
                                            result |-> [status |-> "raised"]])
    /\ UNCHANGED <<initial_capital, commission_rate, slippage_rate,
                   historical_data, strategy, server>>

\* Mutant: an order is tried once and never again.
EligibleOnce(order, timestamp) ==
    /\ order.status = "pending"
    /\ order.symbol \in DOMAIN price_data(timestamp)
    /\ order.timestamp <= timestamp
    /\ trace[cursor].attempts = 0

\* Mutant: an order is tried whatever its timestamp.
EligibleBeforeItsTime(order, timestamp) ==
    /\ order.status = "pending"
    /\ order.symbol \in DOMAIN price_data(timestamp)

\* Lines 416-427: one iteration of "for order in self.orders".
Eligible(order, timestamp) ==
    /\ order.status = "pending"
    /\ order.symbol \in DOMAIN price_data(timestamp)
    /\ order.timestamp <= timestamp

ExecutePendingOrder ==
    /\ pc = "execute"
    /\ InStep
    /\ cursor <= Len(orders)
    /\ LET order == orders[cursor]
           timestamp == timestamps[i]
       IN  IF Eligible(order, timestamp)
           THEN LET price_info == price_data(timestamp)[order.symbol]
                    r == execute_order(order, price_info.close, price_info.high,
                                       price_info.low, current_capital, positions)
                IN  /\ orders' = [orders EXCEPT ![cursor] = r.order]
                    /\ current_capital' = r.capital
                    /\ positions' = r.positions
                    /\ trace' = [trace EXCEPT ![cursor] =
                          [@ EXCEPT !.attempts = @ + 1,
                                    !.outcomes = @ \cup {r.outcome},
                                    !.filled_step = IF r.outcome = "filled" THEN i ELSE @]]
           ELSE UNCHANGED <<orders, current_capital, positions, trace>>
    /\ cursor' = cursor + 1
    /\ UNCHANGED <<initial_capital, commission_rate, slippage_rate, equity_curve,
                   positions_history, daily_returns, historical_data, load_result,
                   pc, start_date, end_date, timestamps, i, result, strategy, runs, server>>

\* The end of the order loop.
OrdersDone ==
    /\ pc = "execute"
    /\ InStep
    /\ cursor > Len(orders)
    /\ pc' = PhaseAfter("execute", i).pc
    /\ i' = PhaseAfter("execute", i).i
    /\ cursor' = 1
    /\ UNCHANGED <<engine, historical_data, load_result, start_date, end_date,
                   timestamps, result, strategy, trace, runs, server>>

\* Line 430: self._update_portfolio_value(timestamp, current_prices).
UpdatePortfolioValue ==
    /\ pc = "portfolio"
    /\ InStep
    /\ LET timestamp == timestamps[i]
           prices == current_prices(timestamp)
           marked == MarkToMarket(positions, prices)
           curve == Append(equity_curve,
                           EquitySnapshot(timestamp, current_capital, marked, prices))
       IN  /\ positions' = marked
           /\ equity_curve' = curve
           /\ positions_history' = Append(positions_history,
                                          PositionsSnapshot(timestamp, marked))
           /\ daily_returns' = DailyReturns(daily_returns, curve)
    /\ pc' = PhaseAfter("portfolio", i).pc
    /\ i' = PhaseAfter("portfolio", i).i
    /\ cursor' = 1
    /\ UNCHANGED <<initial_capital, commission_rate, slippage_rate, current_capital,
                   orders, historical_data, load_result, start_date, end_date,
                   timestamps, result, strategy, trace, runs, server>>

\* Mutant: an exception of the callback ends the loop.
AfterCallbackAborts(raised, k) ==
    IF raised
    THEN [pc |-> StepPhases[1], i |-> Len(timestamps) + 1]
    ELSE PhaseAfter("strategy", k)

\* Lines 432-436: the callback runs inside try/except, so the loop goes on to
\* the next timestamp whether the callback returned or raised.
AfterCallback(raised, k) == PhaseAfter("strategy", k)

\* What the callback does at one timestamp: the place_order calls it makes, in
\* order, and whether it then raises.
Behaviours(Reqs) ==
    {[reqs |-> q, raises |-> r] :
        q \in SeqsUpTo(Reqs, MaxOrders - Len(orders)),
        r \in {b \in BOOLEAN :
                 b => Cardinality({t \in DOMAIN strategy : strategy[t].raises}) < MaxRaises}}

\* The timestamp argument the callback gives to place_order: the current
\* timestamp, or a later one if the request names a delay.
OrderTimestamp(req, timestamp) ==
    IF "delay" \in DOMAIN req THEN timestamp + req.delay ELSE timestamp

RECURSIVE PlaceAll(_, _, _)
PlaceAll(os, timestamp, reqs) ==
    IF reqs = <<>> THEN os
    ELSE PlaceAll(place_order(os, OrderTimestamp(Head(reqs), timestamp), Head(reqs)),
                  timestamp, Tail(reqs))

\* Line 434: strategy_func(timestamp, price_data, self).  The callback is a
\* deterministic function of the timestamp: what it does at a timestamp is
\* chosen when the timestamp is first visited and repeated in later runs.
StrategyCallback(Reqs) ==
    /\ pc = "strategy"
    /\ InStep
    /\ LET timestamp == timestamps[i]
       IN  \E b \in (IF timestamp \in DOMAIN strategy
                      THEN {strategy[timestamp]} ELSE Behaviours(Reqs)) :
             /\ orders' = PlaceAll(orders, timestamp, b.reqs)
             /\ trace' = trace \o [k \in 1..Len(b.reqs) |->
                            [placed_step |-> i, raised |-> b.raises, filled_step |-> 0,
                             attempts |-> 0, outcomes |-> {}]]
             /\ strategy' = [t \in DOMAIN strategy \cup {timestamp} |->
                               IF t = timestamp THEN b ELSE strategy[t]]
             /\ pc' = AfterCallback(b.raises, i).pc
             /\ i' = AfterCallback(b.raises, i).i
    /\ cursor' = 1
    /\ UNCHANGED <<initial_capital, commission_rate, slippage_rate, current_capital,
                   positions, equity_curve, positions_history, daily_returns,
                   historical_data, load_result, start_date, end_date, timestamps,
                   result, runs, server>>

(***************************************************************************)
(* _calculate_max_drawdown(), over the portfolio values of a curve.        *)
(***************************************************************************)
\* Mutant: the peak stays at the first value of the curve.
DrawdownStepFixedPeak(acc, value) ==
    LET drawdown == IF RLt(Zero, acc.peak)
                    THEN RDiv(RSub(acc.peak, value), acc.peak)
                    ELSE Zero
    IN  [peak |-> acc.peak, max_dd |-> RMax(acc.max_dd, drawdown)]

\* Lines 576-579: one iteration of "for point in self.equity_curve".
DrawdownStep(acc, value) ==
    LET peak == IF RLt(acc.peak, value) THEN value ELSE acc.peak
        drawdown == IF RLt(Zero, peak) THEN RDiv(RSub(peak, value), peak) ELSE Zero
    IN  [peak |-> peak, max_dd |-> RMax(acc.max_dd, drawdown)]

RECURSIVE DrawdownLoop(_, _)
DrawdownLoop(acc, curve) ==
    IF curve = <<>> THEN acc
    ELSE DrawdownLoop(DrawdownStep(acc, Head(curve).portfolio_value), Tail(curve))

calculate_max_drawdown(curve) ==
    IF curve = <<>> THEN Zero
    ELSE DrawdownLoop([peak |-> curve[1].portfolio_value, max_dd |-> Zero], curve).max_dd

(***************************************************************************)
(* _calculate_metrics(start_date, end_date).  Rational results are exact;  *)
(* results of a standard deviation or a power are kept as terms over exact *)
(* operands: [op, args].  Dates are day numbers.                           *)
(***************************************************************************)
Exact(r) == [op |-> "exact", args |-> <<r>>]
Term(op, args) == [op |-> op, args |-> args]
Inf == [op |-> "inf", args |-> <<>>]

\* "x > 0" for an exact term or a standard deviation kept as a term (which
\* is positive, see AnnualizedStd).
Positive(t) ==
    IF t.op = "exact" THEN RLt(Zero, t.args[1]) ELSE t.op = "std_sqrt252"

RECURSIVE RSumSeq(_)
RSumSeq(xs) == IF xs = <<>> THEN Zero ELSE RAdd(Head(xs), RSumSeq(Tail(xs)))

\* np.mean(xs), for a non-empty xs.
Mean(xs) == RDiv(RSumSeq(xs), FromInt(Len(xs)))

\* np.std(xs) * np.sqrt(252) if xs else 0 (lines 482 and 533): 0 for an
\* empty xs and for an xs of equal elements, whose standard deviation is 0;
\* otherwise a positive value, kept as a term over the exact xs.
AnnualizedStd(xs) ==
    IF \A a, b \in 1..Len(xs) : xs[a] = xs[b]
    THEN Exact(Zero)
    ELSE Term("std_sqrt252", <<xs>>)

RECURSIVE RMaxSeq(_)
RMaxSeq(xs) == IF Len(xs) = 1 THEN xs[1] ELSE RMax(Head(xs), RMaxSeq(Tail(xs)))

RECURSIVE RMinSeq(_)
RMinSeq(xs) == IF Len(xs) = 1 THEN xs[1] ELSE RMin(Head(xs), RMinSeq(Tail(xs)))

RECURSIVE InsertRat(_, _)
InsertRat(sorted, x) ==
    IF sorted = <<>> THEN <<x>>
    ELSE IF RLt(x, Head(sorted)) THEN <<x>> \o sorted
    ELSE <<Head(sorted)>> \o InsertRat(Tail(sorted), x)

RECURSIVE SortRats(_)
SortRats(xs) ==
    IF xs = <<>> THEN <<>> ELSE InsertRat(SortRats(Tail(xs)), Head(xs))

\* np.percentile(xs, 5): linear interpolation between the order statistics
\* around the position (n - 1) * 5/100.
Percentile5(xs) ==
    LET sorted == SortRats(xs)
        n == Len(xs)
        lo == ((n - 1) * 5) \div 100
        frac == Rat((n - 1) * 5 - lo * 100, 100)
    IN  IF lo + 2 <= n
        THEN RAdd(sorted[lo + 1], RMul(frac, RSub(sorted[lo + 2], sorted[lo + 1])))
        ELSE sorted[lo + 1]

\* Mutant: every filled order is paired with the next one: (1, 2), (2, 3), ...
RECURSIVE TradeReturnsSliding(_)
TradeReturnsSliding(filled_trades) ==
    IF Len(filled_trades) < 2 THEN <<>>
    ELSE LET buy_order == filled_trades[1]
             sell_order == filled_trades[2]
             rest == TradeReturnsSliding(Tail(filled_trades))
         IN  IF buy_order.side = BUY /\ sell_order.side = SELL
             THEN <<RDiv(RSub(sell_order.filled_price, buy_order.filled_price),
                         buy_order.filled_price)>> \o rest
             ELSE rest

\* Lines 497-504: the returns of the index pairs (1, 2), (3, 4), ... of the
\* filled orders whose first order is a BUY and second a SELL.
RECURSIVE TradeReturns(_)
TradeReturns(filled_trades) ==
    IF Len(filled_trades) < 2 THEN <<>>
    ELSE LET buy_order == filled_trades[1]
             sell_order == filled_trades[2]
             rest == TradeReturns(SubSeq(filled_trades, 3, Len(filled_trades)))
         IN  IF buy_order.side = BUY /\ sell_order.side = SELL
             THEN <<RDiv(RSub(sell_order.filled_price, buy_order.filled_price),
                         buy_order.filled_price)>> \o rest
             ELSE rest

\* BacktestMetrics(0, ..., 0): lines 469 and 565.
ZeroMetrics ==
    [total_return |-> Exact(Zero), annualized_return |-> Exact(Zero),
     volatility |-> Exact(Zero), sharpe_ratio |-> Exact(Zero),
     max_drawdown |-> Exact(Zero), win_rate |-> Exact(Zero),
     profit_factor |-> Exact(Zero), total_trades |-> 0, winning_trades |-> 0,
     losing_trades |-> 0, avg_win |-> Exact(Zero), avg_loss |-> Exact(Zero),
     largest_win |-> Exact(Zero), largest_loss |-> Exact(Zero),
     calmar_ratio |-> Exact(Zero), sortino_ratio |-> Exact(Zero),
     var_95 |-> Exact(Zero), cvar_95 |-> Exact(Zero)]

\* Lines 477-479; years = days / 365.25.  1 ** (1 / years) - 1 is 0.
annualized_return(initial_value, final_value, days) ==
    IF days > 0
    THEN IF final_value = initial_value
         THEN Exact(Zero)
         ELSE Term("pow_minus_one",
                   <<RDiv(final_value, initial_value), Rat(1461, 4 * days)>>)
    ELSE Exact(Zero)

\* Lines 487 and 534: excess_return / volatility if volatility > 0 else 0.
sharpe_ratio(excess_return, volatility) ==
    IF Positive(volatility) THEN Term("div", <<excess_return, volatility>>)
    ELSE Exact(Zero)

\* Mutant: the win rate is taken over the round trips, not the filled orders.
win_rate_per_round_trip(winning_trades_count, total_trades) ==
    IF total_trades > 1 THEN Exact(Rat(winning_trades_count, total_trades \div 2))
    ELSE Exact(Zero)

\* Line 513.
win_rate(winning_trades_count, total_trades) ==
    IF total_trades > 0 THEN Exact(Rat(winning_trades_count, total_trades))
    ELSE Exact(Zero)

\* Line 518.
profit_factor(gross_profit, gross_loss) ==
    IF RLt(Zero, gross_loss) THEN Exact(RDiv(gross_profit, gross_loss)) ELSE Inf

\* Mutant: without a drawdown the Calmar ratio is reported as infinite.
calmar_ratio_inf(annual, max_drawdown) ==
    IF RLt(Zero, max_drawdown) THEN Term("div", <<annual, Exact(max_drawdown)>>)
    ELSE Inf

\* Line 529.
calmar_ratio(annual, max_drawdown) ==
    IF RLt(Zero, max_drawdown) THEN Term("div", <<annual, Exact(max_drawdown)>>)
    ELSE Exact(Zero)

\* Lines 471-561, for a non-empty curve with a non-zero first value.
Metrics(start, end, curve, returns, os) ==
    LET initial_value == curve[1].portfolio_value
        final_value == curve[Len(curve)].portfolio_value
        annual == annualized_return(initial_value, final_value, end - start)
        volatility == AnnualizedStd(returns)
        excess_return == Term("sub", <<annual, Exact(Rat(5, 100))>>)
        max_drawdown == calculate_max_drawdown(curve)
        filled_trades == SelectSeq(os, LAMBDA o : o.status = "filled")
        total_trades == Len(filled_trades)
        trade_returns == TradeReturns(filled_trades)
        winning_trades == SelectSeq(trade_returns, LAMBDA r : RLt(Zero, r))
        losing_trades == SelectSeq(trade_returns, LAMBDA r : RLt(r, Zero))
        gross_profit == IF winning_trades # <<>> THEN RSumSeq(winning_trades) ELSE Zero
        gross_loss == IF losing_trades # <<>>
                      THEN LET t == RSumSeq(losing_trades) IN <<Abs(t[1]), t[2]>>
                      ELSE Zero
        downside_returns == SelectSeq(returns, LAMBDA r : RLt(r, Zero))
        var_95 == IF returns # <<>> THEN Percentile5(returns) ELSE Zero
    IN  [total_return |-> Exact(RDiv(RSub(final_value, initial_value), initial_value)),
         annualized_return |-> annual,
         volatility |-> volatility,
         sharpe_ratio |-> sharpe_ratio(excess_return, volatility),
         max_drawdown |-> Exact(max_drawdown),
         win_rate |-> win_rate(Len(winning_trades), total_trades),
         profit_factor |-> profit_factor(gross_profit, gross_loss),
         total_trades |-> total_trades,
         winning_trades |-> Len(winning_trades),
         losing_trades |-> Len(losing_trades),
         avg_win |-> Exact(IF winning_trades # <<>> THEN Mean(winning_trades) ELSE Zero),
         avg_loss |-> Exact(IF losing_trades # <<>> THEN Mean(losing_trades) ELSE Zero),
         largest_win |-> Exact(IF winning_trades # <<>> THEN RMaxSeq(winning_trades)
                               ELSE Zero),
         largest_loss |-> Exact(IF losing_trades # <<>> THEN RMinSeq(losing_trades)
                                ELSE Zero),
         calmar_ratio |-> calmar_ratio(annual, max_drawdown),
         sortino_ratio |-> sharpe_ratio(excess_return, AnnualizedStd(downside_returns)),
         var_95 |-> Exact(var_95),
         cvar_95 |-> Exact(IF returns # <<>>
                           THEN Mean(SelectSeq(returns, LAMBDA r : RLe(r, var_95)))
                           ELSE Zero)]

\* Lines 465-565.  An empty curve gives the zero report; so does the
\* ZeroDivisionError of line 474 for a first value of 0 (except clause, 563).
calculate_metrics(start, end, curve, returns, os) ==
    IF curve = <<>> THEN ZeroMetrics
    ELSE IF curve[1].portfolio_value = Zero THEN ZeroMetrics
    ELSE Metrics(start, end, curve, returns, os)

(***************************************************************************)
(* _calculate_monthly_returns().  Timestamps are day numbers; day 1 is the *)
(* first day of a month of 30 days.                                        *)
(***************************************************************************)
\* point["timestamp"].strftime("%Y-%m")
month_key(timestamp) == (timestamp - 1) \div 30

\* monthly_data[month]: the portfolio values of the month, in curve order.
MonthlyValues(curve, month) ==
    LET points == SelectSeq(curve, LAMBDA point : month_key(point.timestamp) = month)
    IN  [n \in 1..Len(points) |-> points[n].portfolio_value]

\* Lines 596-605, over the months in the order of the curve.
RECURSIVE MonthlyLoop(_, _)
MonthlyLoop(curve, months) ==
    IF months = <<>> THEN <<>>
    ELSE LET values == MonthlyValues(curve, Head(months))
             rest == MonthlyLoop(curve, Tail(months))
         IN  IF Len(values) > 1
             THEN <<[month |-> Head(months),
                     return |-> RDiv(RSub(values[Len(values)], values[1]), values[1]),
                     start_value |-> values[1],
                     end_value |-> values[Len(values)]]>> \o rest
             ELSE rest

\* The method has no try: for a month of several snapshots that starts at
\* the value 0 the division of line 599 raises ZeroDivisionError.
calculate_monthly_returns(curve) ==
    LET months == SortedSeq({month_key(curve[n].timestamp) : n \in 1..Len(curve)})
        raised == \E n \in 1..Len(months) :
                      LET values == MonthlyValues(curve, months[n])
                      IN  Len(values) > 1 /\ values[1] = Zero
    IN  IF raised THEN [raised |-> TRUE, monthly_returns |-> <<>>]
        ELSE [raised |-> FALSE, monthly_returns |-> MonthlyLoop(curve, months)]

\* Lines 442-459: build and return the BacktestResult.
BacktestResult ==
    [status |-> "returned",
     start_date |-> start_date,
     end_date |-> end_date,
     initial_capital |-> initial_capital,
     final_capital |-> IF equity_curve # <<>>
                       THEN equity_curve[Len(equity_curve)].portfolio_value
                       ELSE initial_capital,
     metrics |-> calculate_metrics(start_date, end_date, equity_curve,
                                   daily_returns, orders),
     trades |-> SelectSeq(orders, LAMBDA o : o.status = "filled"),
     equity_curve |-> equity_curve,
     positions_history |-> positions_history,
     monthly_returns |-> calculate_monthly_returns(equity_curve).monthly_returns]

\* Lines 442-463: the result is returned, unless building it raises; the
\* exception is logged and raised again.
RunOutcome ==
    IF calculate_monthly_returns(equity_curve).raised
    THEN [status |-> "raised"]
    ELSE BacktestResult

Finish ==
    /\ pc # "idle"
    /\ i > Len(timestamps)
    /\ result' = RunOutcome
    /\ runs' = Append(runs, [start_date |-> start_date, end_date |-> end_date,
                              data |-> historical_data,
                              daily_returns |-> daily_returns,
                              result |-> RunOutcome])
    /\ pc' = "idle"
    /\ UNCHANGED <<engine, historical_data, load_result, start_date, end_date,
                   timestamps, i, cursor, strategy, trace, server>>

NextOf(Reqs, Frames, Ranges, nruns) ==
    \/ LoadHistoricalData(Frames)
    \/ RunBacktest(Ranges, nruns)
    \/ ExecutePendingOrder
    \/ OrdersDone
    \/ UpdatePortfolioValue
    \/ StrategyCallback(Reqs)
    \/ Finish

\* One run over the main inputs.
Next == NextOf(MainRequests, MainFrames, MainRanges, 1)

Spec == Init /\ [][Next]_vars

\* Reuse of one engine for several runs, over one symbol and market orders.
ReuseFrames ==
    [symbol \in Symbols |->
        IF symbol = "A"
        THEN FramesOver(Timestamps, {Bar(1, 2, 1, 2), Bar(1, 1, 1, 1)})
        ELSE {}]

ReuseRequests ==
    {Request("A", side, q, MARKET, None, None) : side \in {BUY, SELL}, q \in 1..MaxQty}

NextReuse == NextOf(ReuseRequests, ReuseFrames, {<<1, MaxTime>>}, MaxRuns)

SpecReuse == Init /\ [][NextReuse]_vars

\* Limit orders against every well-formed bar.  No order exists at the first
\* step of a run, so one bar is enough at timestamp 1.
LimitFrames ==
    [symbol \in Symbols |->
        IF symbol = "A"
        THEN FramesOf(Timestamps, {f \in [Timestamps -> BarSet] : f[1] = Bar(1, 1, 1, 1)})
        ELSE {}]

LimitRequests ==
    {Request("A", side, 1, LIMIT, FromInt(p), None) : side \in {BUY, SELL}, p \in Prices}
    \cup {Request("A", BUY, 1, MARKET, None, None)}

NextLimit == NextOf(LimitRequests, LimitFrames, {<<1, MaxTime>>}, 1)

SpecLimit == Init /\ [][NextLimit]_vars

\* Market, stop and stop-limit orders against every well-formed bar.
FillFrames == LimitFrames

FillRequests ==
    {Request("A", BUY, 1, MARKET, None, None),
     Request("A", SELL, 1, MARKET, None, None),
     Request("A", BUY, 1, STOP, None, FromInt(1)),
     Request("A", SELL, 1, STOP_LIMIT, FromInt(1), FromInt(1))}

NextFill == NextOf(FillRequests, FillFrames, {<<1, MaxTime>>}, 1)

SpecFill == Init /\ [][NextFill]_vars

\* _calculate_max_drawdown as a function of the equity curve: the curves of
\* up to MaxCurve snapshots with portfolio values in 1..MaxValue, and the
\* curve 100000, 120000, 90000, 110000.
CurveOf(values) ==
    [n \in 1..Len(values) |->
        [timestamp |-> n, portfolio_value |-> FromInt(values[n]),
         cash |-> FromInt(values[n]), market_value |-> Zero, realized_pnl |-> Zero,
         unrealized_pnl |-> Zero, total_pnl |-> Zero]]

ScenarioCurve == CurveOf(<<100000, 120000, 90000, 110000>>)

DrawdownCurves ==
    {CurveOf(values) : values \in SeqsUpTo(1..MaxValue, MaxCurve)} \cup {ScenarioCurve}

InitDrawdown ==
    /\ initial_capital \in InitialCapitals
    /\ commission_rate \in CommissionRates
    /\ slippage_rate \in SlippageRates
    /\ current_capital = initial_capital
    /\ positions = <<>>
    /\ orders = <<>>
    /\ equity_curve \in DrawdownCurves
    /\ positions_history = <<>>
    /\ daily_returns = <<>>
    /\ historical_data = <<>>
    /\ load_result = NoLoad
    /\ pc = "idle"
    /\ start_date = 0
    /\ end_date = 0
    /\ timestamps = <<>>
    /\ i = 0
    /\ cursor = 0
    /\ result = NoResult
    /\ strategy = <<>>
    /\ trace = <<>>
    /\ runs = <<>>
    /\ server = SingleThread

\* Line 490: max_drawdown = self._calculate_max_drawdown().
CalculateMaxDrawdown ==
    /\ result = NoResult
    /\ result' = [status |-> "max_drawdown",
                  max_drawdown |-> calculate_max_drawdown(equity_curve)]
    /\ UNCHANGED <<engine, historical_data, load_result, pc, start_date, end_date,
                   timestamps, i, cursor, strategy, trace, runs, server>>

NextDrawdown == CalculateMaxDrawdown

SpecDrawdown == InitDrawdown /\ [][NextDrawdown]_vars

\* Runs whose metrics meet the guards of _calculate_metrics: no capital, a
\* range of one day, a range without data, winning and losing round trips.
MetricsCapitals == {Zero, FromInt(3)}

MetricsFrames ==
    [symbol \in Symbols |->
        IF symbol = "A"
        THEN FramesOver(Timestamps, {Bar(1, 1, 1, 1), Bar(2, 2, 2, 2)})
        ELSE {}]

MetricsRequests ==
    {Request("A", side, 1, MARKET, None, None) : side \in {BUY, SELL}}

MetricsRanges == {<<1, MaxTime>>, <<MaxTime, MaxTime>>, <<MaxTime + 1, MaxTime + 1>>}

NextMetrics == NextOf(MetricsRequests, MetricsFrames, MetricsRanges, 1)

SpecMetrics == InitWith(MetricsCapitals) /\ [][NextMetrics]_vars

\* Loads at any moment, good and bad, and two runs of one engine.
LoadFrames ==
    [symbol \in Symbols |->
        IF symbol = "A"
        THEN {[columns |-> RequiredColumns,
               rows |-> [k \in Timestamps |-> Row(k, bar)]] :
                 bar \in {Bar(1, 2, 1, 2), Bar(1, 1, 1, 1)}} \cup {BadFrame}
        ELSE {BadFrame}]

LoadRequests == {Request("A", BUY, q, MARKET, None, None) : q \in 1..MaxQty}

NextLoad ==
    \/ LoadAnytime(LoadFrames)
    \/ RunBacktest({<<1, MaxTime>>}, MaxRuns)
    \/ ExecutePendingOrder
    \/ OrdersDone
    \/ UpdatePortfolioValue
    \/ StrategyCallback(LoadRequests)
    \/ Finish

SpecLoad == Init /\ [][NextLoad]_vars

(***************************************************************************)
(* The HTTP server, server/app.py: one module-level BacktestEngine (308)   *)
(* shared by the handlers load_backtest_data and run_backtest (804-851).   *)
(* Both are plain "def" path operations, which the framework runs on the   *)
(* threads of a pool, one thread per request in progress; no lock is       *)
(* taken.  The variables of "control" are the locals of the running        *)
(* thread; a thread switch saves them and restores another thread's.       *)
(***************************************************************************)
Threads == 1..MaxThreads

CurrentControl ==
    [pc |-> pc, start_date |-> start_date, end_date |-> end_date,
     timestamps |-> timestamps, i |-> i, cursor |-> cursor, result |-> result]

\* A pool thread that is not inside a handler.
IdleControl ==
    [pc |-> "idle", start_date |-> 0, end_date |-> 0, timestamps |-> <<>>,
     i |-> 0, cursor |-> 0, result |-> NoResult]

ControlOf(t) == IF t = server.running THEN CurrentControl ELSE server.saved[t]

\* The thread t is inside BacktestEngine.run_backtest.
InRunBacktest(t) == ControlOf(t).pc # "idle"

\* backtest_engine = BacktestEngine(initial_capital=100000), app.py line 308,
\* with the default commission and slippage of engine.py line 95.
InitServer ==
    /\ initial_capital = FromInt(100000)
    /\ commission_rate = Rat(1, 1000)
    /\ slippage_rate = Rat(5, 10000)
    /\ current_capital = initial_capital
    /\ positions = <<>>
    /\ orders = <<>>
    /\ equity_curve = <<>>
    /\ positions_history = <<>>
    /\ daily_returns = <<>>
    /\ historical_data = <<>>
    /\ load_result = NoLoad
    /\ pc = "idle"
    /\ start_date = 0
    /\ end_date = 0
    /\ timestamps = <<>>
    /\ i = 0
    /\ cursor = 0
    /\ result = NoResult
    /\ strategy = <<>>
    /\ trace = <<>>
    /\ runs = <<>>
    /\ server = [running |-> 1, saved |-> [t \in Threads \ {1} |-> IdleControl]]

\* The interpreter switches from the running thread to the thread t, between
\* two steps of the handlers.
ContextSwitch(t) ==
    /\ t # server.running
    /\ server' = [running |-> t,
                  saved |-> [u \in Threads \ {t} |->
                               IF u = server.running THEN CurrentControl
                               ELSE server.saved[u]]]
    /\ pc' = server.saved[t].pc
    /\ start_date' = server.saved[t].start_date
    /\ end_date' = server.saved[t].end_date
    /\ timestamps' = server.saved[t].timestamps
    /\ i' = server.saved[t].i
    /\ cursor' = server.saved[t].cursor
    /\ result' = server.saved[t].result
    /\ UNCHANGED <<engine, historical_data, load_result, strategy, trace, runs>>

\* demo_strategy, app.py lines 827-829: the callback of every run the server
\* starts; it places no order and returns.
DemoStrategy ==
    /\ pc = "strategy"
    /\ InStep
    /\ pc' = AfterCallback(FALSE, i).pc
    /\ i' = AfterCallback(FALSE, i).i
    /\ cursor' = 1
    /\ UNCHANGED <<engine, historical_data, load_result, start_date, end_date,
                   timestamps, result, strategy, trace, runs, server>>

ServerFrames ==
    [symbol \in Symbols |->
        IF symbol = "A"
        THEN {[columns |-> RequiredColumns,
               rows |-> [k \in Timestamps |-> Row(k, Bar(1, 1, 1, 1))]], BadFrame}
        ELSE {[columns |-> RequiredColumns,
               rows |-> [k \in 1..(MaxTime - 1) |-> Row(k, Bar(1, 1, 1, 1))]]}]

\* The requests the server handles, each on a thread of its own: loads and
\* runs over the demo strategy.  No order is ever placed, so the order loop
\* of lines 416-427 has no iteration.
NextServer ==
    \/ LoadHistoricalData(ServerFrames)
    \/ RunBacktest({<<1, MaxTime>>}, MaxRuns)
    \/ OrdersDone
    \/ UpdatePortfolioValue
    \/ DemoStrategy
    \/ Finish
    \/ \E t \in Threads : ContextSwitch(t)

SpecServer == InitServer /\ [][NextServer]_vars

\* place_order called with any integer quantity: negative, zero, positive;
\* the symbol B has no bar at some timestamps.
QuantityRequests ==
    {Request("A", side, q, MARKET, None, None) : side \in {BUY, SELL}, q \in -1..1}
        \cup {Request("B", BUY, 1, MARKET, None, None)}

NextQuantity == NextOf(QuantityRequests, MainFrames, {<<1, MaxTime>>}, 1)

SpecQuantity == Init /\ [][NextQuantity]_vars

\* The clock of a run over symbols with different timestamps, loaded from
\* rows in any order.  The volume of a row is its index in the frame given to
\* load_historical_data, so the stored rows show the order they came in.
ClockFrames ==
    [symbol \in Symbols |->
        UNION {{[columns |-> RequiredColumns,
                 rows |-> [k \in 1..Len(ord) |->
                             [Row(ord[k], Bar(1, 1, 1, 1)) EXCEPT !.volume = k]]] :
                    ord \in Orderings(T)} : T \in (SUBSET Timestamps) \ {{}}}]

ClockRequests == {Request("A", BUY, 1, MARKET, None, None)}

ClockRanges == {<<1, MaxTime>>, <<2, MaxTime>>, <<2, 2>>}

NextClock == NextOf(ClockRequests, ClockFrames, ClockRanges, 1)

SpecClock == Init /\ [][NextClock]_vars

\* _update_position as a function of the position and the fill: up to
\* MaxUpdates calls on a new engine for the symbol A, with every quantity
\* change in -MaxQty..MaxQty at every price.  result keeps the calls made:
\* their arguments and the position each of them found.
LedgerUpdates == IF result.status = "updated" THEN result.updates ELSE <<>>

UpdatePosition ==
    /\ pc = "idle"
    /\ Len(LedgerUpdates) < MaxUpdates
    /\ \E quantity_change \in -MaxQty..MaxQty : \E price \in Prices :
          /\ positions' = update_position(positions, "A", quantity_change, FromInt(price))
          /\ result' = [status |-> "updated",
                        updates |-> Append(LedgerUpdates,
                            [symbol |-> "A", quantity_change |-> quantity_change,
                             price |-> FromInt(price),
                             before |-> IF "A" \in DOMAIN positions
                                        THEN positions["A"] ELSE BacktestPosition])]
    /\ UNCHANGED <<initial_capital, commission_rate, slippage_rate, current_capital,
                   orders, equity_curve, positions_history, daily_returns,
                   historical_data, load_result, pc, start_date, end_date, timestamps,
                   i, cursor, strategy, trace, runs, server>>

NextLedger == UpdatePosition

SpecLedger == Init /\ [][NextLedger]_vars

\* The trade statistics of _calculate_metrics as a function of the order
\* list: every list of up to MaxTrades orders that are pending or filled, on
\* either side, of A (quantity 1) or B (quantity 2), at every price; the
\* equity curve is flat.
TradeOrder(symbol, side, quantity, price, rate) ==
    [BacktestOrder(1, symbol, side, MARKET, quantity, None, None) EXCEPT
        !.filled_price = FromInt(price),
        !.filled_quantity = quantity,
        !.status = "filled",
        !.commission = RMul(RScale(FromInt(price), quantity), rate)]

TradeOrders(rate) ==
    {TradeOrder(sq[1], side, sq[2], price, rate) :
        sq \in {<<"A", 1>>, <<"B", 2>>}, side \in {BUY, SELL}, price \in Prices}
    \cup {BacktestOrder(1, "A", BUY, MARKET, 1, None, None)}

InitTrades ==
    /\ initial_capital \in InitialCapitals
    /\ commission_rate \in CommissionRates
    /\ slippage_rate \in SlippageRates
    /\ current_capital = initial_capital
    /\ positions = <<>>
    /\ orders \in SeqsUpTo(TradeOrders(commission_rate), MaxTrades)
    /\ equity_curve = CurveOf(<<3, 3>>)
    /\ positions_history = <<>>
    /\ daily_returns = <<Zero>>
    /\ historical_data = <<>>
    /\ load_result = NoLoad
    /\ pc = "idle"
    /\ start_date = 1
    /\ end_date = 2
    /\ timestamps = <<>>
    /\ i = 0
    /\ cursor = 0
    /\ result = NoResult
    /\ strategy = <<>>
    /\ trace = <<>>
    /\ runs = <<>>
    /\ server = SingleThread

\* Line 443: metrics = self._calculate_metrics(start_date, end_date), which
\* also leaves self.trade_returns (line 506).
CalculateMetrics ==
    /\ result = NoResult
    /\ result' = [status |-> "metrics",
                  metrics |-> calculate_metrics(start_date, end_date, equity_curve,
                                                daily_returns, orders),
                  trade_returns |->
                      TradeReturns(SelectSeq(orders, LAMBDA o : o.status = "filled"))]
    /\ UNCHANGED <<engine, historical_data, load_result, pc, start_date, end_date,
                   timestamps, i, cursor, strategy, trace, runs, server>>

NextTrades == CalculateMetrics

SpecTrades == InitTrades /\ [][NextTrades]_vars

\* Orders placed for a later timestamp, and orders of a symbol that has no
\* bar at some timestamps.
EligibleFrames ==
    [symbol \in Symbols |->
        {[columns |-> RequiredColumns,
          rows |-> [k \in 1..Len(ts) |-> Row(ts[k], Bar(1, 1, 1, 1))]] :
            ts \in {SortedSeq(T) : T \in IF symbol = "A" THEN {Timestamps}
                                         ELSE (SUBSET Timestamps) \ {{}}}}]

EligibleRequests ==
    {Request(symbol, BUY, 1, MARKET, None, None) @@ [delay |-> d] :
        symbol \in Symbols, d \in 0..(MaxTime - 1)}

NextEligible == NextOf(EligibleRequests, EligibleFrames, {<<1, MaxTime>>}, 1)

SpecEligible == Init /\ [][NextEligible]_vars

\* The control flow of run_backtest, lines 397-463: what a step of the call
\* does to its position.  The order loop moves to the next order; after the
\* last order, the snapshot and the callback the loop body moves to its next
\* phase; after the last timestamp the call returns or raises.
RunControl ==
    /\ pc # "idle"
    /\ \/ /\ InStep
          /\ pc = "execute"
          /\ cursor <= Len(orders)
          /\ pc' = pc
          /\ i' = i
          /\ cursor' = cursor + 1
       \/ /\ InStep
          /\ pc = "execute" => cursor > Len(orders)
          /\ pc' = PhaseAfter(pc, i).pc
          /\ i' = PhaseAfter(pc, i).i
          /\ cursor' = 1
       \/ /\ i > Len(timestamps)
          /\ pc' = "idle"
          /\ i' = i
          /\ cursor' = cursor

\* run_backtest is a blocking, sequential call: once it has started, the
\* statement it has reached is executed.  Nothing makes a caller load data or
\* start a run.  The rest of a step is a list of assignments, so a step is
\* enabled whenever its control part is.
SpecTermination == Init /\ [][Next]_vars /\ WF_<<pc, i, cursor>>(RunControl)

\* Limit and market orders on an engine whose capital is just enough for the
\* price of an order, not for its commission.
CashCapitals == {FromInt(1), FromInt(2)}

SpecCash == InitWith(CashCapitals) /\ [][NextLimit]_vars

\* Limit orders placed without a price, next to market orders.
NoPriceRequests ==
    {Request("A", side, 1, order_type, None, None) :
        side \in {BUY, SELL}, order_type \in {LIMIT, MARKET}}

NextNoPrice == NextOf(NoPriceRequests, ReuseFrames, {<<1, MaxTime>>}, 1)

SpecNoPrice == Init /\ [][NextNoPrice]_vars

(***************************************************************************)
(* Properties.                                                             *)
(***************************************************************************)
Returned == pc = "idle" /\ result.status = "returned"
OrderIds == 1..Len(orders)
IsFilled(k) == orders[k].status = "filled"
Raising == {t \in DOMAIN strategy : strategy[t].raises}

\* C1: one-bar latency.  An order placed by the callback during step k is
\* still pending as long as step k lasts, a filled order was filled at a step
\* later than the step it was placed in, and the orders placed by the last
\* step's callback are pending when the run has returned.
C1_OneBarLatency ==
    /\ Len(trace) = Len(orders)
    /\ \A k \in OrderIds :
          /\ IsFilled(k) => trace[k].filled_step > trace[k].placed_step
          /\ (pc # "idle" /\ trace[k].placed_step = i) => orders[k].status = "pending"
          /\ (Returned /\ trace[k].placed_step = Len(timestamps))
                => orders[k].status = "pending"

\* An order is filled at the step right after the one it was placed in.
C1_Witness ==
    \E k \in OrderIds : IsFilled(k) /\ trace[k].filled_step = trace[k].placed_step + 1

\* Net cash flow of the filled orders of os at commission rate rate.
RECURSIVE CashFlow(_, _)
CashFlow(os, rate) ==
    IF os = <<>> THEN Zero
    ELSE LET o == Head(os)
             gross == RScale(o.filled_price, o.quantity)
             fee == RMul(gross, rate)
         IN  IF o.status # "filled" THEN CashFlow(Tail(os), rate)
             ELSE IF o.side = BUY
                  THEN RSub(CashFlow(Tail(os), rate), RAdd(gross, fee))
                  ELSE RAdd(CashFlow(Tail(os), rate), RSub(gross, fee))

\* C2: cash is exact.  In every state cash equals the initial capital minus
\* fill_price*qty + commission of every filled BUY plus fill_price*qty -
\* commission of every filled SELL, where each filled order's commission is
\* fill_price*qty*commission_rate.
C2_CashExact ==
    /\ current_capital = RAdd(initial_capital, CashFlow(orders, commission_rate))
    /\ \A k \in OrderIds : IsFilled(k) =>
          orders[k].commission =
              RMul(RScale(orders[k].filled_price, orders[k].quantity), commission_rate)

\* A BUY and a SELL have both been filled.
C2_Witness ==
    /\ \E k \in OrderIds : IsFilled(k) /\ orders[k].side = BUY
    /\ \E k \in OrderIds : IsFilled(k) /\ orders[k].side = SELL

\* The order loop is about to try the order at the cursor.
AtAttempt ==
    /\ pc = "execute"
    /\ InStep
    /\ cursor <= Len(orders)
    /\ orders[cursor].status = "pending"
    /\ orders[cursor].symbol \in DOMAIN price_data(timestamps[i])
    /\ orders[cursor].timestamp <= timestamps[i]

BarAtAttempt == price_data(timestamps[i])[orders[cursor].symbol]

PriceAtAttempt ==
    ExecutionPrice(orders[cursor], BarAtAttempt.close, BarAtAttempt.high, BarAtAttempt.low)

\* The order at the cursor has a fill price and is a BUY costing more than
\* the cash, or a SELL of more than the position holds.
RejectionCase ==
    /\ AtAttempt
    /\ PriceAtAttempt.kind = "price"
    /\ LET o == orders[cursor] IN
          \/ /\ o.side = BUY
             /\ RLt(current_capital, RScale(PriceAtAttempt.price, o.quantity))
          \/ /\ o.side = SELL
             /\ \/ o.symbol \notin DOMAIN positions
                \/ positions[o.symbol].quantity < o.quantity

\* C3: a rejected order changes nothing.  The attempt of an order in the
\* rejection case leaves the orders (so the order is pending, its fill fields
\* unchanged), the cash and the positions as they were, and the loop goes on
\* to the next order.
C3_RejectionChangesNothing ==
    [][RejectionCase =>
        /\ orders' = orders
        /\ current_capital' = current_capital
        /\ positions' = positions
        /\ pc' = "execute"
        /\ cursor' = cursor + 1]_vars

\* A BUY was rejected for cash and a SELL for position.
C3_Witness ==
    /\ \E k \in OrderIds : "insufficient_capital" \in trace[k].outcomes
    /\ \E k \in OrderIds : "insufficient_position" \in trace[k].outcomes

\* C4: a returned run has one equity snapshot per clock timestamp, in clock
\* order, whether or not the callback raised at some step.
C4_OneSnapshotPerTimestamp ==
    Returned =>
        LET clock == Clock(start_date, end_date)
        IN  /\ Len(result.equity_curve) = Len(clock)
            /\ \A k \in 1..Len(clock) : result.equity_curve[k].timestamp = clock[k]
            /\ \A k \in 1..(Len(clock) - 1) : clock[k] < clock[k + 1]

\* A run over MaxTime timestamps returned although the callback raised at its
\* first step.
C4_Witness ==
    /\ Returned
    /\ Len(result.equity_curve) = MaxTime
    /\ 1 \in Raising

\* C5: no order placed by a callback invocation that raised is in the order
\* list.
C5_RaisedCallbackLeavesNoOrder ==
    \A k \in OrderIds : ~trace[k].raised

\* C6 as claimed: a BUY once rejected for insufficient cash is never filled.
C6_RejectedBuyNeverFilled ==
    \A k \in OrderIds :
        "insufficient_capital" \in trace[k].outcomes => orders[k].status = "pending"

\* C6 as amended: a BUY rejected for insufficient cash stays pending and is
\* tried again at every later step at which it is eligible; such an attempt
\* fills it exactly if it has a fill price at that bar and
\* fill_price*quantity <= cash.
C6_RejectedBuyIsRetried ==
    [][(AtAttempt /\ "insufficient_capital" \in trace[cursor].outcomes) =>
        /\ trace'[cursor].attempts = trace[cursor].attempts + 1
        /\ (orders'[cursor].status = "filled") <=>
              /\ PriceAtAttempt.kind = "price"
              /\ RLe(RScale(PriceAtAttempt.price, orders[cursor].quantity),
                     current_capital)]_vars

\* A BUY that was rejected for insufficient cash at one step is filled.
C6_Witness ==
    \E k \in OrderIds :
        "insufficient_capital" \in trace[k].outcomes /\ IsFilled(k)

\* C7: a position is flat exactly if its market value and its unrealized
\* P&L are both zero.
C7_FlatIffZeroValue ==
    \A s \in DOMAIN positions :
        (positions[s].quantity = 0) <=>
            (positions[s].market_value = Zero /\ positions[s].unrealized_pnl = Zero)

\* A position was closed at a profit or loss and marked to market since.
C7_Witness ==
    /\ pc = "strategy"
    /\ \E s \in DOMAIN positions :
          positions[s].quantity = 0 /\ positions[s].realized_pnl # Zero

\* C8: every run of one engine over the same data and date range with the
\* same callback returns the result of the first run, and leaves the same
\* daily returns.
C8_ReuseIsDeterministic ==
    \A r \in 1..Len(runs) :
        (/\ runs[r].data = runs[1].data
         /\ runs[r].start_date = runs[1].start_date
         /\ runs[r].end_date = runs[1].end_date)
            => /\ runs[r].result = runs[1].result
               /\ runs[r].daily_returns = runs[1].daily_returns

\* A second run returned; the run filled an order and left one pending.
C8_Witness ==
    /\ Len(runs) = 2
    /\ Returned
    /\ result.trades # <<>>
    /\ \E k \in OrderIds : orders[k].status = "pending"

\* C9: order status is monotonic.  An order is pending with no fill price or
\* filled with one, and while a run lasts a filled order stays in the list
\* exactly as it is.
C9_FilledIsFinal ==
    /\ [](\A k \in OrderIds :
            /\ orders[k].status \in {"pending", "filled"}
            /\ IsFilled(k) <=> orders[k].filled_price # None)
    /\ [][pc # "idle" =>
            \A k \in OrderIds :
                (IsFilled(k) \/ orders[k].filled_price # None)
                    => (k <= Len(orders') /\ orders'[k] = orders[k])]_vars

\* An order was filled at an earlier step than the current one, whose bar
\* has another high and low.
C9_Witness ==
    /\ pc = "portfolio"
    /\ InStep
    /\ \E k \in OrderIds :
          /\ IsFilled(k)
          /\ trace[k].filled_step < i
          /\ orders[k].symbol \in DOMAIN price_data(timestamps[i])
          /\ price_data(timestamps[i])[orders[k].symbol].high
                # price_data(timestamps[trace[k].filled_step])[orders[k].symbol].high

\* C10: a filled LIMIT BUY has filled_price <= its limit price and a filled
\* LIMIT SELL has filled_price >= its limit price.
C10_LimitPriceBound ==
    \A k \in OrderIds :
        (orders[k].order_type = LIMIT /\ IsFilled(k)) =>
            IF orders[k].side = BUY
            THEN RLe(orders[k].filled_price, orders[k].price)
            ELSE RLe(orders[k].price, orders[k].filled_price)

\* A LIMIT BUY was filled at a bar whose high is above its limit price, and a
\* LIMIT SELL at a bar whose low is above its limit price.
C10_Witness ==
    /\ \E k \in OrderIds :
          /\ orders[k].order_type = LIMIT /\ orders[k].side = BUY /\ IsFilled(k)
          /\ RLt(orders[k].price,
                 price_data(timestamps[trace[k].filled_step])[orders[k].symbol].high)
    /\ \E k \in OrderIds :
          /\ orders[k].order_type = LIMIT /\ orders[k].side = SELL /\ IsFilled(k)
          /\ RLt(orders[k].price,
                 price_data(timestamps[trace[k].filled_step])[orders[k].symbol].low)

\* The bar of the step at which order k was filled.
FillBar(k) == price_data(timestamps[trace[k].filled_step])[orders[k].symbol]

\* The limit condition of the order at the cursor is not met at its bar.
LimitNotMet ==
    /\ AtAttempt
    /\ orders[cursor].order_type = LIMIT
    /\ orders[cursor].price # None
    /\ IF orders[cursor].side = BUY
       THEN RLt(orders[cursor].price, BarAtAttempt.close)
       ELSE RLt(BarAtAttempt.close, orders[cursor].price)

\* C11: a filled LIMIT BUY was filled at a bar with close <= its limit price
\* and a filled LIMIT SELL at a bar with close >= its limit price; the attempt
\* of a LIMIT order whose condition is not met leaves the order pending in the
\* list, with cash and positions unchanged, at every step of the run.
C11_LimitFillsOnCloseOnly ==
    /\ [](\A k \in OrderIds :
            (orders[k].order_type = LIMIT /\ IsFilled(k)) =>
                IF orders[k].side = BUY
                THEN RLe(FillBar(k).close, orders[k].price)
                ELSE RLe(orders[k].price, FillBar(k).close))
    /\ [][LimitNotMet =>
            /\ orders' = orders
            /\ current_capital' = current_capital
            /\ positions' = positions
            /\ trace'[cursor].attempts = trace[cursor].attempts + 1]_vars

\* A LIMIT order was not executable at two steps and is pending when the run
\* has returned, and another LIMIT order was filled.
C11_Witness ==
    /\ Returned
    /\ \E k \in OrderIds :
          /\ orders[k].order_type = LIMIT
          /\ orders[k].status = "pending"
          /\ trace[k].attempts = MaxTime - 1
          /\ trace[k].outcomes = {"not_executable"}
    /\ \E k \in OrderIds : orders[k].order_type = LIMIT /\ IsFilled(k)

\* C12: a filled MARKET BUY has filled_price = high*(1 + slippage_rate) and a
\* filled MARKET SELL filled_price = low*(1 - slippage_rate) of the bar it was
\* filled at; the price a market order gets at a bar is the same for every
\* close (the open is not even passed to _execute_order).
C12_MarketFillPrice ==
    /\ \A k \in OrderIds :
          (orders[k].order_type = MARKET /\ IsFilled(k)) =>
              orders[k].filled_price =
                  IF orders[k].side = BUY
                  THEN RMul(FillBar(k).high, RAdd(One, slippage_rate))
                  ELSE RMul(FillBar(k).low, RSub(One, slippage_rate))
    /\ (AtAttempt /\ orders[cursor].order_type = MARKET) =>
          \A c \in Prices :
              ExecutionPrice(orders[cursor], FromInt(c), BarAtAttempt.high,
                             BarAtAttempt.low) = PriceAtAttempt

\* A MARKET BUY was filled at a bar whose open and close are below its high,
\* and a MARKET SELL at a bar whose close is above its low.
C12_Witness ==
    /\ \E k \in OrderIds :
          /\ orders[k].order_type = MARKET /\ orders[k].side = BUY /\ IsFilled(k)
          /\ RLt(FillBar(k).close, FillBar(k).high)
          /\ RLt(FillBar(k).open, FillBar(k).high)
    /\ \E k \in OrderIds :
          /\ orders[k].order_type = MARKET /\ orders[k].side = SELL /\ IsFilled(k)
          /\ RLt(FillBar(k).low, FillBar(k).close)

Unsupported(k) == orders[k].order_type \in {STOP, STOP_LIMIT}

\* C13: a STOP or STOP_LIMIT order is in the order list as placed: pending,
\* without fill price, filled quantity or commission; and the attempt of
\* such an order changes no order, not the cash and no position.
C13_StopOrdersNeverFill ==
    /\ [](\A k \in OrderIds : Unsupported(k) =>
            /\ orders[k].status = "pending"
            /\ orders[k].filled_price = None
            /\ orders[k].filled_quantity = 0
            /\ orders[k].commission = Zero)
    /\ [][(AtAttempt /\ Unsupported(cursor)) =>
            /\ orders' = orders
            /\ current_capital' = current_capital
            /\ positions' = positions]_vars

\* The run has returned with a STOP BUY that was tried at every step after
\* its placement, with enough cash for it as a market order, and a
\* STOP_LIMIT order that was tried.
C13_Witness ==
    /\ Returned
    /\ \E k \in OrderIds :
          /\ orders[k].order_type = STOP /\ orders[k].side = BUY
          /\ trace[k].attempts = MaxTime - 1
          /\ trace[k].outcomes = {"unsupported"}
          /\ RLe(RScale(RMul(FromInt(MaxPrice), RAdd(One, slippage_rate)),
                        orders[k].quantity), current_capital)
    /\ \E k \in OrderIds :
          /\ orders[k].order_type = STOP_LIMIT
          /\ "unsupported" \in trace[k].outcomes

\* Net cash flow of the first k orders' fills made at the steps 1..n.
RECURSIVE CashFlowUntil(_, _)
CashFlowUntil(k, n) ==
    IF k = 0 THEN Zero
    ELSE LET o == orders[k]
             rest == CashFlowUntil(k - 1, n)
         IN  IF o.status = "filled" /\ trace[k].filled_step <= n
             THEN LET gross == RScale(o.filled_price, o.quantity)
                  IN  IF o.side = BUY
                      THEN RSub(rest, RAdd(gross, o.commission))
                      ELSE RAdd(rest, RSub(gross, o.commission))
             ELSE rest

\* Net quantity of symbol s bought by the first k orders' fills at steps 1..n.
RECURSIVE NetQuantityUntil(_, _, _)
NetQuantityUntil(k, s, n) ==
    IF k = 0 THEN 0
    ELSE LET o == orders[k]
             rest == NetQuantityUntil(k - 1, s, n)
         IN  IF o.status = "filled" /\ o.symbol = s /\ trace[k].filled_step <= n
             THEN IF o.side = BUY THEN rest + o.quantity ELSE rest - o.quantity
             ELSE rest

\* C14: step ordering.  A step's snapshot is taken after all its fill
\* attempts and before its callback, and step k + 1 starts after the callback
\* of step k: the snapshot of step n holds the cash and the quantities left
\* by the fills of steps 1..n, and every order was placed at a step whose
\* snapshot was already taken, and filled (if at all) at a later step.
C14_StepOrdering ==
    /\ [](/\ pc \in {"execute", "portfolio"} => Len(equity_curve) = i - 1
          /\ pc = "strategy" => Len(equity_curve) = i
          /\ \A n \in 1..Len(equity_curve) :
                /\ equity_curve[n].timestamp = timestamps[n]
                /\ equity_curve[n].cash =
                       RAdd(initial_capital, CashFlowUntil(Len(orders), n))
                /\ \A s \in Symbols :
                       NetQuantityUntil(Len(orders), s, n) =
                           IF s \in DOMAIN positions_history[n].positions
                           THEN positions_history[n].positions[s].quantity
                           ELSE 0
          /\ \A k \in OrderIds :
                /\ trace[k].placed_step <= Len(equity_curve)
                /\ IsFilled(k) => trace[k].filled_step > trace[k].placed_step)
    /\ [][/\ (pc = "execute" /\ pc' = "portfolio") => (cursor > Len(orders) /\ i' = i)
          /\ (pc = "execute" /\ pc' \notin {"execute", "portfolio"})
                => (pc' = "idle" /\ i > Len(timestamps))
          /\ (pc = "portfolio" /\ pc' # pc)
                => (pc' = "strategy" /\ i' = i
                    /\ Len(equity_curve') = Len(equity_curve) + 1)
          /\ pc = "portfolio" => pc' # "execute"
          /\ (pc = "strategy" /\ pc' # pc) => (pc' = "execute" /\ i' = i + 1)]_vars

\* A fill of step n changed the cash between the snapshots of steps n - 1
\* and n, and another order was placed by the callback of step n.
C14_Witness ==
    \E n \in 2..Len(equity_curve) :
        /\ equity_curve[n].cash # equity_curve[n - 1].cash
        /\ \E k \in OrderIds : IsFilled(k) /\ trace[k].filled_step = n
        /\ \E k \in OrderIds : trace[k].placed_step = n

\* C15: right after a snapshot is appended, its market_value, unrealized_pnl
\* and realized_pnl are the sums over all positions the engine holds, whether
\* or not their symbol has a bar at the timestamp, and portfolio_value is
\* cash + that market_value.
C15_SnapshotSumsAllPositions ==
    pc = "strategy" =>
        LET e == equity_curve[Len(equity_curve)]
            held == DOMAIN positions
        IN  /\ e.market_value = RSum(held, [s \in held |-> positions[s].market_value])
            /\ e.unrealized_pnl = RSum(held, [s \in held |-> positions[s].unrealized_pnl])
            /\ e.realized_pnl = RSum(held, [s \in held |-> positions[s].realized_pnl])
            /\ e.cash = current_capital
            /\ e.portfolio_value = RAdd(e.cash, e.market_value)

\* C16: there is one stored daily return per equity snapshot: zero for the
\* first snapshot and (portfolio_value - previous)/previous for each later
\* one.
C16_DailyReturnPerSnapshot ==
    /\ Len(daily_returns) = Len(equity_curve)
    /\ \A n \in 1..Len(daily_returns) :
          daily_returns[n] =
              IF n = 1 THEN Zero
              ELSE RDiv(RSub(equity_curve[n].portfolio_value,
                             equity_curve[n - 1].portfolio_value),
                        equity_curve[n - 1].portfolio_value)

\* The portfolio values of the equity curve.
Values == [n \in 1..Len(equity_curve) |-> equity_curve[n].portfolio_value]

\* The drawdown from the value at index a to the value at index b.
DrawdownBetween(a, b) == RDiv(RSub(Values[a], Values[b]), Values[a])

\* C17: for a curve of positive values max_drawdown is the greatest
\* (v_a - v_b)/v_a over the index pairs a <= b; it is 0 for a non-decreasing
\* curve, lies in [0, 1], and is 1/4 for 100000, 120000, 90000, 110000.
C17_MaxDrawdown ==
    result.status = "max_drawdown" =>
        LET n == Len(equity_curve)
            dd == result.max_drawdown
        IN  /\ \A a \in 1..n : \A b \in a..n : RLe(DrawdownBetween(a, b), dd)
            /\ n > 0 => \E a \in 1..n : \E b \in a..n : dd = DrawdownBetween(a, b)
            /\ (\A a \in 1..(n - 1) : RLe(Values[a], Values[a + 1])) => dd = Zero
            /\ RLe(Zero, dd) /\ RLe(dd, One)
            /\ equity_curve = ScenarioCurve => dd = Rat(1, 4)

\* max_drawdown was computed for the curve 100000, 120000, 90000, 110000,
\* whose deepest drawdown starts at the second value.
C17_Witness ==
    /\ result.status = "max_drawdown"
    /\ equity_curve = ScenarioCurve
    /\ result.max_drawdown = DrawdownBetween(2, 3)
    /\ RLt(DrawdownBetween(1, 3), result.max_drawdown)

IsZero(t) == t.op = "exact" /\ t.args[1] = Zero

AllEqual(xs) == \A a, b \in 1..Len(xs) : xs[a] = xs[b]

\* No index pair (1, 2), (3, 4), ... of the trades is a BUY followed by a SELL
\* at a lower fill price.
NoLosingTrade(trades) ==
    \A k \in 1..(Len(trades) \div 2) :
        ~(/\ trades[2 * k - 1].side = BUY
          /\ trades[2 * k].side = SELL
          /\ RLt(trades[2 * k].filled_price, trades[2 * k - 1].filled_price))

\* The report of a returned run has no usable first value: the equity curve
\* is empty or starts at 0.
NoFirstValue ==
    \/ result.equity_curve = <<>>
    \/ result.equity_curve[1].portfolio_value = Zero

\* The ratios other than profit_factor are 0 where their denominator is 0 or
\* their data is missing, and none of them is infinite.
RatiosDefaultToZero ==
    LET m == result.metrics
    IN  /\ NoFirstValue => (IsZero(m.total_return) /\ IsZero(m.annualized_return))
        /\ end_date - start_date <= 0 => IsZero(m.annualized_return)
        /\ AllEqual(daily_returns) => (IsZero(m.volatility) /\ IsZero(m.sharpe_ratio))
        /\ AllEqual(SelectSeq(daily_returns, LAMBDA r : RLt(r, Zero)))
              => IsZero(m.sortino_ratio)
        /\ IsZero(m.max_drawdown) => IsZero(m.calmar_ratio)
        /\ result.trades = <<>> => IsZero(m.win_rate)
        /\ \A t \in {m.total_return, m.annualized_return, m.sharpe_ratio,
                      m.sortino_ratio, m.calmar_ratio, m.win_rate} : t.op # "inf"

\* C18 as claimed: every ratio of the report, profit_factor included, is 0
\* and never infinite where its denominator is 0 or its data is missing.
C18_RatiosDefaultToZero ==
    Returned =>
        /\ RatiosDefaultToZero
        /\ NoLosingTrade(result.trades) => IsZero(result.metrics.profit_factor)

\* C18 as amended: the ratios other than profit_factor are 0 and never
\* infinite where their denominator is 0 or their data is missing;
\* profit_factor is 0 if the equity curve is empty or starts at 0, infinite
\* in every other report without a losing trade, and finite otherwise.
C18_RatiosDefaultToZeroButProfitFactor ==
    Returned =>
        /\ RatiosDefaultToZero
        /\ result.metrics.profit_factor.op =
              IF NoFirstValue THEN "exact"
              ELSE IF NoLosingTrade(result.trades) THEN "inf" ELSE "exact"
        /\ NoFirstValue => IsZero(result.metrics.profit_factor)

\* A run over MaxTime steps returned with one winning round trip and no
\* losing one: win_rate is 1/2 and profit_factor infinite.
C18_Witness ==
    /\ Returned
    /\ Len(result.equity_curve) = MaxTime
    /\ result.metrics.winning_trades = 1
    /\ NoLosingTrade(result.trades)
    /\ result.metrics.win_rate = Exact(Rat(1, 2))
    /\ result.metrics.profit_factor = Inf

\* The last load call was made with a frame that lacks a required column.
BadCall(call) == call.returned # "none" /\ ~(RequiredColumns \subseteq call.columns)

\* C19: a load_historical_data call with a frame that lacks a required
\* column returns False; the step of such a call leaves the data stored for
\* every symbol, the engine state and the position of the run in progress
\* as they were; and a run started with data loaded never ends in failure,
\* failed loads before or during it notwithstanding.
C19_FailedLoadStoresNothing ==
    /\ [](/\ load_result.returned # "none"
                => (BadCall(load_result) <=> load_result.returned = "false")
          /\ \A r \in 1..Len(runs) :
                runs[r].data # <<>> => runs[r].result.status = "returned")
    /\ [][(load_result' # load_result /\ BadCall(load_result')) =>
            /\ historical_data' = historical_data
            /\ UNCHANGED <<engine, control, strategy, trace, runs>>]_vars

\* During the last step of a run a load for a symbol that has data failed
\* in the callback of an earlier step, and an order was filled since.
C19_Witness ==
    /\ pc = "portfolio"
    /\ i = MaxTime
    /\ BadCall(load_result)
    /\ load_result.symbol \in DOMAIN historical_data
    /\ \E k \in OrderIds : IsFilled(k) /\ trace[k].filled_step = i

\* C20: failure propagation.  A run_backtest call on an engine without any
\* loaded data ends in failure: the caller gets the exception and no
\* BacktestResult.  A call on an engine with data returns a BacktestResult,
\* whatever orders were rejected and whatever the callback raised.
C20_FailurePropagation ==
    /\ \A r \in 1..Len(runs) :
          runs[r].result.status = IF runs[r].data = <<>> THEN "raised" ELSE "returned"
    /\ (pc = "idle" /\ runs # <<>>) => result = runs[Len(runs)].result
    /\ result.status = "raised" => DOMAIN result = {"status"}
    /\ result.status = "returned" =>
          Len(result.equity_curve) = Len(Clock(start_date, end_date))

\* The first run_backtest call failed for lack of data; after a load the
\* second returned a result over MaxTime steps although an order was
\* rejected and the callback raised.
C20_Witness ==
    /\ Len(runs) = 2
    /\ runs[1].result.status = "raised"
    /\ runs[2].result.status = "returned"
    /\ Len(result.equity_curve) = MaxTime
    /\ Raising # {}
    /\ \E k \in OrderIds : "insufficient_capital" \in trace[k].outcomes

\* C21: exclusive ownership.  At most one thread is inside run_backtest on
\* the engine at a time, and no load_historical_data call is made while a
\* thread is inside run_backtest, in the HTTP server included.
C21_ExclusiveOwnership ==
    /\ [](\A t, u \in Threads : (InRunBacktest(t) /\ InRunBacktest(u)) => t = u)
    /\ [][(load_result' # load_result /\ load_result'.returned # "none")
            => \A t \in Threads : ~InRunBacktest(t)]_vars

\* C22: every order in the order list has quantity > 0, and so has every
\* filled order.
C22_QuantityPositive ==
    \A k \in OrderIds :
        /\ orders[k].quantity > 0
        /\ IsFilled(k) => orders[k].filled_quantity > 0

\* The timestamps of the rows stored for the symbol s.
TimestampsOf(s) ==
    {historical_data[s][k].timestamp : k \in 1..Len(historical_data[s])}

\* The row stored for the symbol s at the timestamp t.
StoredRow(s, t) ==
    historical_data[s][CHOOSE k \in 1..Len(historical_data[s]) :
                           historical_data[s][k].timestamp = t]

\* C23: the clock of a run holds exactly the timestamps t of the loaded data
\* of any symbol with start_date <= t <= end_date, each once, in strictly
\* ascending order, whatever the order of the rows given to the load; the
\* callback is invoked once at each clock timestamp, in clock order, and the
\* bars it is given are those of the symbols with a row at that timestamp.
C23_ClockAndCallback ==
    /\ [](/\ (pc # "idle" \/ Returned) =>
                /\ \A k \in 1..(Len(timestamps) - 1) : timestamps[k] < timestamps[k + 1]
                /\ {timestamps[k] : k \in 1..Len(timestamps)} =
                       {t \in UNION {TimestampsOf(s) : s \in DOMAIN historical_data} :
                           start_date <= t /\ t <= end_date}
          /\ (pc = "strategy" /\ InStep) =>
                LET t == timestamps[i]
                    given == price_data(t)
                IN  /\ DOMAIN given = {s \in DOMAIN historical_data : t \in TimestampsOf(s)}
                    /\ DOMAIN given # {}
                    /\ \A s \in DOMAIN given :
                          /\ given[s].open = FromInt(StoredRow(s, t).open)
                          /\ given[s].high = FromInt(StoredRow(s, t).high)
                          /\ given[s].low = FromInt(StoredRow(s, t).low)
                          /\ given[s].close = FromInt(StoredRow(s, t).close)
                          /\ given[s].volume = StoredRow(s, t).volume
          /\ Returned => DOMAIN strategy = {timestamps[k] : k \in 1..Len(timestamps)})
    /\ [][(pc = "strategy" /\ pc' # "strategy") =>
            /\ timestamps[i] \notin DOMAIN strategy
            /\ DOMAIN strategy' = DOMAIN strategy \cup {timestamps[i]}
            /\ i' = i + 1
            /\ timestamps' = timestamps]_vars

\* A run over [2, MaxTime] returned; A was loaded from rows in descending
\* order of timestamp, only A has a row at the first timestamp, which is out
\* of the range, and only B has a row at the last.
C23_Witness ==
    /\ Returned
    /\ start_date = 2
    /\ DOMAIN historical_data = Symbols
    /\ Len(historical_data["A"]) > 1
    /\ \A k \in 1..(Len(historical_data["A"]) - 1) :
          historical_data["A"][k].volume > historical_data["A"][k + 1].volume
    /\ 1 \in TimestampsOf("A") \ TimestampsOf("B")
    /\ MaxTime \in TimestampsOf("B") \ TimestampsOf("A")
    /\ timestamps[Len(timestamps)] = MaxTime
    /\ Len(timestamps) = MaxTime - 1

Sign(x) == IF x > 0 THEN 1 ELSE IF x < 0 THEN -1 ELSE 0

\* The position the k-th _update_position call left.
PositionAfter(k) ==
    IF k < Len(LedgerUpdates) THEN LedgerUpdates[k + 1].before
    ELSE positions[LedgerUpdates[k].symbol]

\* The k-th call reduces the position it found: its quantity change opposes
\* the position and is not larger than it.
Reduces(k) ==
    LET u == LedgerUpdates[k]
    IN  /\ u.before.quantity # 0
        /\ Sign(u.quantity_change) = -Sign(u.before.quantity)
        /\ Abs(u.quantity_change) <= Abs(u.before.quantity)

\* C24: an update that reduces a position adds
\* sign(old_qty)*(price - avg_price)*|delta| to realized_pnl, moves the
\* quantity toward zero by |delta| and leaves avg_price as it was, also when
\* the position becomes flat.
C24_LedgerReduce ==
    \A k \in 1..Len(LedgerUpdates) :
        Reduces(k) =>
            LET u == LedgerUpdates[k]
                old == u.before
                new == PositionAfter(k)
            IN  /\ new.realized_pnl =
                       RAdd(old.realized_pnl,
                            RScale(RSub(u.price, old.avg_price),
                                   Sign(old.quantity) * Abs(u.quantity_change)))
                /\ new.quantity = old.quantity + u.quantity_change
                /\ Abs(new.quantity) = Abs(old.quantity) - Abs(u.quantity_change)
                /\ new.avg_price = old.avg_price

\* A long position was reduced at a price other than its average and then
\* closed by a second reduction.
C24_Witness ==
    \E k \in 1..(Len(LedgerUpdates) - 1) :
        /\ Reduces(k) /\ Reduces(k + 1)
        /\ LedgerUpdates[k].before.quantity > 0
        /\ LedgerUpdates[k].price # LedgerUpdates[k].before.avg_price
        /\ PositionAfter(k).quantity > 0
        /\ PositionAfter(k + 1).quantity = 0
        /\ PositionAfter(k + 1).avg_price = LedgerUpdates[k].before.avg_price

\* The k-th call flips the position it found: its quantity change opposes
\* the position and is larger than it.
Flips(k) ==
    LET u == LedgerUpdates[k]
    IN  /\ u.before.quantity # 0
        /\ Sign(u.quantity_change) = -Sign(u.before.quantity)
        /\ Abs(u.quantity_change) > Abs(u.before.quantity)

\* The k-th call opens a position where it found a flat one.
Reopens(k) ==
    LedgerUpdates[k].before.quantity = 0 /\ LedgerUpdates[k].quantity_change # 0

\* C25: an update that flips a position adds
\* sign(old_qty)*(price - avg_price)*|old_qty| to realized_pnl and leaves, in
\* that one update, a position of the opposite sign with quantity
\* old_qty + delta and avg_price = price; an update that opens a position
\* where it found a flat one, closed before or new, leaves avg_price = price
\* on either side.
C25_LedgerFlipAndReopen ==
    \A k \in 1..Len(LedgerUpdates) :
        LET u == LedgerUpdates[k]
            old == u.before
            new == PositionAfter(k)
        IN  /\ Flips(k) =>
                  /\ new.realized_pnl =
                         RAdd(old.realized_pnl,
                              RScale(RSub(u.price, old.avg_price), old.quantity))
                  /\ new.quantity = old.quantity + u.quantity_change
                  /\ Sign(new.quantity) = -Sign(old.quantity)
                  /\ new.avg_price = u.price
            /\ Reopens(k) =>
                  /\ new.quantity = u.quantity_change
                  /\ new.avg_price = u.price
                  /\ new.realized_pnl = old.realized_pnl

\* A short position was flipped into a long one at a price other than its
\* average, the long was closed, and the flat position, which still had the
\* old average, was reopened on the short side at another price.
C25_Witness ==
    \E k \in 2..(Len(LedgerUpdates) - 2) :
        /\ LedgerUpdates[k].before.quantity < 0
        /\ Flips(k)
        /\ LedgerUpdates[k].price # LedgerUpdates[k].before.avg_price
        /\ Reduces(k + 1)
        /\ Reopens(k + 2)
        /\ LedgerUpdates[k + 2].quantity_change < 0
        /\ LedgerUpdates[k + 2].before.avg_price # Zero
        /\ LedgerUpdates[k + 2].price # LedgerUpdates[k + 2].before.avg_price

\* The filled orders of the order list, in list order.
FilledTrades == SelectSeq(orders, LAMBDA o : o.status = "filled")

\* The k-th index pair of the filled orders is a BUY followed by a SELL.
IsRoundTrip(k) ==
    FilledTrades[2 * k - 1].side = BUY /\ FilledTrades[2 * k].side = SELL

PairReturn(k) ==
    RDiv(RSub(FilledTrades[2 * k].filled_price, FilledTrades[2 * k - 1].filled_price),
         FilledTrades[2 * k - 1].filled_price)

\* The returns of the index pairs that are round trips, in pair order.
RoundTripReturns ==
    LET pairs == SelectSeq([k \in 1..(Len(FilledTrades) \div 2) |-> k],
                           LAMBDA k : IsRoundTrip(k))
    IN  [j \in 1..Len(pairs) |-> PairReturn(pairs[j])]

\* C26: the trade returns are those of the index pairs (1, 2), (3, 4), ... of
\* the filled orders whose first order is a BUY and second a SELL, as
\* (sell.filled_price - buy.filled_price)/buy.filled_price, whatever the
\* symbols and quantities of the two orders; no other pair and no trailing
\* order gives a return; the win and loss counts of the report follow.
C26_TradePairing ==
    result.status = "metrics" =>
        /\ result.trade_returns = RoundTripReturns
        /\ result.metrics.total_trades = Len(FilledTrades)
        /\ result.metrics.winning_trades =
               Cardinality({j \in 1..Len(RoundTripReturns) : RLt(Zero, RoundTripReturns[j])})
        /\ result.metrics.losing_trades =
               Cardinality({j \in 1..Len(RoundTripReturns) : RLt(RoundTripReturns[j], Zero)})

\* Five filled orders: a BUY of A sold as 2 B at a higher price is a winning
\* trade, the pair SELL, BUY gives no return although the orders 2 and 3
\* would, and the trailing order is not paired.
C26_Witness ==
    /\ result.status = "metrics"
    /\ Len(FilledTrades) = 5
    /\ IsRoundTrip(1)
    /\ FilledTrades[1].symbol # FilledTrades[2].symbol
    /\ FilledTrades[1].quantity # FilledTrades[2].quantity
    /\ FilledTrades[3].side = SELL /\ FilledTrades[4].side = BUY
    /\ FilledTrades[5].side = SELL
    /\ result.trade_returns = <<PairReturn(1)>>
    /\ RLt(Zero, PairReturn(1))
    /\ result.metrics.winning_trades = 1

\* C27: the annualized return of a report with a usable first value is
\* (final/initial)^(365.25/days) - 1 with days = end_date - start_date + 1,
\* the inclusive span of the run, and 0 only if that span is <= 0.
C27_InclusiveDays ==
    (Returned /\ ~NoFirstValue) =>
        LET curve == result.equity_curve
            initial_value == curve[1].portfolio_value
            final_value == curve[Len(curve)].portfolio_value
            days == end_date - start_date + 1
        IN  result.metrics.annualized_return =
                IF days <= 0 \/ final_value = initial_value
                THEN Exact(Zero)
                ELSE Term("pow_minus_one",
                          <<RDiv(final_value, initial_value), Rat(1461, 4 * days)>>)

\* The symbol s has a row at the timestamp t in the loaded data.
HasBar(s, t) == s \in DOMAIN historical_data /\ t \in TimestampsOf(s)

\* The order loop is at the order at the cursor.
AtOrder == pc = "execute" /\ InStep /\ cursor <= Len(orders)

\* C28: at a step with timestamp t the loop attempts the order at its cursor
\* exactly if the order is pending, its symbol has a bar at t and
\* order.timestamp <= t; otherwise it leaves the order, the cash and the
\* positions untouched; so an order was filled at a timestamp not before its
\* own at which its symbol has a bar.
C28_FillEligibility ==
    /\ [](\A k \in OrderIds : IsFilled(k) =>
            /\ orders[k].timestamp <= timestamps[trace[k].filled_step]
            /\ HasBar(orders[k].symbol, timestamps[trace[k].filled_step]))
    /\ [][AtOrder =>
            LET o == orders[cursor]
                t == timestamps[i]
                eligible == o.status = "pending" /\ HasBar(o.symbol, t) /\ o.timestamp <= t
            IN  /\ trace'[cursor].attempts =
                       trace[cursor].attempts + (IF eligible THEN 1 ELSE 0)
                /\ ~eligible =>
                       /\ orders' = orders
                       /\ current_capital' = current_capital
                       /\ positions' = positions]_vars

\* The run has returned.  An order of A placed at the first step for the
\* last timestamp was attempted once, at the last step, and filled; an order
\* of B, which has no bar at the second timestamp, was attempted once too.
C28_Witness ==
    /\ Returned
    /\ ~HasBar("B", 2)
    /\ \E k \in OrderIds :
          /\ orders[k].symbol = "A"
          /\ trace[k].placed_step = 1
          /\ orders[k].timestamp = MaxTime
          /\ trace[k].attempts = 1
          /\ trace[k].filled_step = MaxTime
    /\ \E k \in OrderIds :
          /\ orders[k].symbol = "B"
          /\ trace[k].placed_step = 1
          /\ orders[k].timestamp = 1
          /\ trace[k].attempts = 1
          /\ IsFilled(k)

\* C29: the mark-to-market of a step changes, of the positions whose symbol
\* has a bar at the timestamp, only market_value (to quantity * close) and
\* unrealized_pnl (to sign(quantity) * (close - avg_price) * |quantity|); it
\* leaves every position's quantity, avg_price and realized_pnl, the positions
\* of symbols without a bar, the cash and every order as they were.
C29_MarkToMarketFrame ==
    [][(pc = "portfolio" /\ pc' = "strategy") =>
         /\ current_capital' = current_capital
         /\ orders' = orders
         /\ DOMAIN positions' = DOMAIN positions
         /\ \A s \in DOMAIN positions :
               LET before == positions[s]
                   after == positions'[s]
               IN  /\ after.quantity = before.quantity
                   /\ after.avg_price = before.avg_price
                   /\ after.realized_pnl = before.realized_pnl
                   /\ IF HasBar(s, timestamps[i])
                      THEN LET close == FromInt(StoredRow(s, timestamps[i]).close)
                           IN  /\ after.market_value = RScale(close, before.quantity)
                               /\ after.unrealized_pnl =
                                     RScale(RScale(RSub(close, before.avg_price),
                                                   Abs(before.quantity)),
                                            Sign(before.quantity))
                      ELSE after = before]_vars

\* A short position has been marked at a close that differs from its cost
\* basis.
C29_Witness ==
    /\ pc = "strategy"
    /\ InStep
    /\ \E s \in DOMAIN positions :
          /\ positions[s].quantity < 0
          /\ positions[s].unrealized_pnl # Zero
          /\ positions[s].market_value =
                RScale(FromInt(StoredRow(s, timestamps[i]).close), positions[s].quantity)

C31_NoShortExposure ==
    (\A k \in OrderIds : orders[k].quantity > 0) =>
        \A s \in DOMAIN positions : positions[s].quantity >= 0

\* A SELL was rejected for lack of position, and a SELL has been filled and
\* has closed a long position to flat.
C31_Witness ==
    /\ \E k \in OrderIds :
          /\ orders[k].side = SELL
          /\ orders[k].status = "filled"
    /\ \E k \in OrderIds :
          /\ orders[k].side = SELL
          /\ "insufficient_position" \in trace[k].outcomes
    /\ \E s \in DOMAIN positions : positions[s].quantity = 0

C33_FirstSnapshot ==
    /\ equity_curve # <<>> =>
          /\ equity_curve[1].portfolio_value = initial_capital
          /\ equity_curve[1].cash = initial_capital
          /\ equity_curve[1].market_value = Zero
          /\ DOMAIN positions_history[1].positions = {}
    /\ \A r \in 1..Len(runs) :
          (runs[r].result.status = "returned" /\ runs[r].result.equity_curve # <<>>) =>
              LET res == runs[r].result
              IN  /\ res.equity_curve[1].portfolio_value = res.initial_capital
                  /\ res.metrics.total_return =
                        Exact(RDiv(RSub(res.final_capital, res.initial_capital),
                                   res.initial_capital))

\* The second run of an engine has taken its first snapshot, after a first
\* run that ended with a position and a changed portfolio value.
C33_Witness ==
    /\ Len(runs) = 1
    /\ pc # "idle"
    /\ Len(equity_curve) = 1
    /\ \E s \in DOMAIN runs[1].result.positions_history[MaxTime].positions : TRUE
    /\ runs[1].result.final_capital # initial_capital

\* C34: within one step the pending orders are attempted one after the
\* other in the order of the list, the order they were placed in, and the
\* attempt of an order is decided on the cash and the positions as the
\* attempts before it in the same step left them: an eligible MARKET BUY is
\* filled exactly if its price times its quantity is within the cash at that
\* moment, an eligible MARKET SELL exactly if the position at that moment
\* holds its quantity.
C34_SequentialFills ==
    [][(pc = "execute" /\ pc' = "execute" /\ i' = i) =>
         /\ cursor' = cursor + 1
         /\ \A k \in OrderIds : k # cursor => orders'[k] = orders[k]
         /\ LET order == orders[cursor]
                t == timestamps[i]
            IN  (/\ order.status = "pending"
                 /\ order.order_type = MARKET
                 /\ order.timestamp <= t
                 /\ HasBar(order.symbol, t)) =>
                    LET bar == StoredRow(order.symbol, t)
                        buy_price == RMul(FromInt(bar.high), RAdd(One, slippage_rate))
                        affordable == RLe(RScale(buy_price, order.quantity), current_capital)
                        covered == /\ order.symbol \in DOMAIN positions
                                   /\ positions[order.symbol].quantity >= order.quantity
                    IN  (orders'[cursor].status = "filled") <=>
                            IF order.side = BUY THEN affordable ELSE covered]_vars

\* A BUY and a SELL of the same symbol, placed in this order at the same
\* step, were both filled at the same later step: the SELL sold what the BUY
\* had just bought.
C34_Witness ==
    \E b, s \in OrderIds :
        /\ b < s
        /\ orders[b].side = BUY /\ orders[s].side = SELL
        /\ orders[b].symbol = orders[s].symbol
        /\ orders[b].status = "filled" /\ orders[s].status = "filled"
        /\ trace[b].filled_step = trace[s].filled_step
        /\ orders[b].quantity = orders[s].quantity

\* The last step whose order loop has passed the order k.
StepsPassed(k) ==
    IF pc = "execute" /\ cursor <= k THEN i - 1
    ELSE IF i > Len(timestamps) THEN Len(timestamps) ELSE i

\* The steps from..to at which the symbol of the order k has a bar.
BarSteps(k, from, to) ==
    {j \in from..to : HasBar(orders[k].symbol, timestamps[j])}

\* What _execute_order requires of a MARKET order at its turn.
CanFillNow(order, t) ==
    LET bar == StoredRow(order.symbol, t)
    IN  IF order.side = BUY
        THEN RLe(RScale(RMul(FromInt(bar.high), RAdd(One, slippage_rate)), order.quantity),
                 current_capital)
        ELSE /\ order.symbol \in DOMAIN positions
             /\ positions[order.symbol].quantity >= order.quantity

\* C35: a MARKET order placed at step k for the current timestamp is tried
\* at every later step at which its symbol has a bar, is filled at the first
\* of them at which, at its turn, the cash covers price * quantity (BUY) or
\* the position holds the quantity (SELL), and is pending until then.
C35_MarketResponse ==
    /\ [](\A k \in OrderIds :
            LET p == trace[k].placed_step
                f == trace[k].filled_step
            IN  (orders[k].order_type = MARKET /\ orders[k].timestamp <= timestamps[p]) =>
                  /\ orders[k].status \in {"pending", "filled"}
                  /\ orders[k].status = "pending" =>
                        /\ trace[k].attempts = Cardinality(BarSteps(k, p + 1, StepsPassed(k)))
                        /\ trace[k].outcomes \subseteq
                              {"insufficient_capital", "insufficient_position"}
                  /\ orders[k].status = "filled" =>
                        /\ f > p
                        /\ f \in BarSteps(k, p + 1, f)
                        /\ trace[k].attempts = Cardinality(BarSteps(k, p + 1, f))
                        /\ trace[k].outcomes \subseteq
                              {"insufficient_capital", "insufficient_position", "filled"})
    /\ [][(/\ pc = "execute" /\ pc' = "execute" /\ i' = i
           /\ orders[cursor].order_type = MARKET
           /\ orders[cursor].status = "pending"
           /\ orders[cursor].timestamp <= timestamps[i]
           /\ HasBar(orders[cursor].symbol, timestamps[i])) =>
            /\ trace'[cursor].attempts = trace[cursor].attempts + 1
            /\ (orders'[cursor].status = "filled") = CanFillNow(orders[cursor], timestamps[i])
            /\ (orders'[cursor].status = "pending") = ~CanFillNow(orders[cursor], timestamps[i])]_vars

\* A MARKET BUY was rejected for lack of cash at the first step after its
\* placement and filled at the step after that, at a lower price.
C35_Witness ==
    \E k \in OrderIds :
        /\ orders[k].order_type = MARKET
        /\ orders[k].side = BUY
        /\ orders[k].status = "filled"
        /\ trace[k].filled_step = trace[k].placed_step + 2
        /\ trace[k].attempts = 2
        /\ "insufficient_capital" \in trace[k].outcomes

\* The sum of a field over all positions.
PositionsTotal(field) ==
    RSum(DOMAIN positions, [s \in DOMAIN positions |-> positions[s][field]])

CommissionsPaid == RSumSeq([k \in OrderIds |-> orders[k].commission])

\* C36: accounting identity.  With positive order quantities, right after
\* the mark-to-market of a step at which every symbol with a non-zero
\* position has a bar, cash + sum of market_value = initial_capital + sum of
\* realized_pnl + sum of unrealized_pnl - sum of the commissions of the
\* filled orders, the sums taken over all positions.
C36_AccountingIdentity ==
    (/\ pc = "strategy"
     /\ InStep
     /\ \A k \in OrderIds : orders[k].quantity > 0
     /\ \A s \in DOMAIN positions :
           positions[s].quantity # 0 => HasBar(s, timestamps[i])) =>
        RAdd(current_capital, PositionsTotal("market_value")) =
            RSub(RAdd(initial_capital,
                      RAdd(PositionsTotal("realized_pnl"), PositionsTotal("unrealized_pnl"))),
                 CommissionsPaid)

\* After a BUY and a SELL of a part of it, the rest of the position has been
\* marked at a close that differs from its cost basis.
C36_Witness ==
    /\ pc = "strategy"
    /\ InStep
    /\ \E s \in DOMAIN positions :
          /\ positions[s].quantity > 0
          /\ HasBar(s, timestamps[i])
          /\ positions[s].realized_pnl # Zero
          /\ positions[s].unrealized_pnl # Zero
    /\ \A k \in OrderIds : orders[k].status = "filled"
    /\ Len(orders) = 2

\* C37: fills are all-or-nothing.  Every order is either pending with
\* filled_quantity 0, no filled_price and commission 0, or filled with
\* filled_quantity = quantity and a filled_price; the trades of a returned
\* result are exactly the filled orders, in the order of the list.
C37_AllOrNothing ==
    /\ \A k \in OrderIds :
          \/ /\ orders[k].status = "pending"
             /\ orders[k].filled_quantity = 0
             /\ orders[k].filled_price = None
             /\ orders[k].commission = Zero
          \/ /\ orders[k].status = "filled"
             /\ orders[k].filled_quantity = orders[k].quantity
             /\ orders[k].filled_price # None
    /\ (pc = "idle" /\ result.status = "returned") =>
          /\ \A n \in 1..Len(result.trades) : result.trades[n].status = "filled"
          /\ Len(result.trades) = Cardinality({k \in OrderIds : orders[k].status = "filled"})
          /\ \E pick \in [1..Len(result.trades) -> OrderIds] :
                /\ \A n \in 1..Len(result.trades) : result.trades[n] = orders[pick[n]]
                /\ \A m, n \in 1..Len(result.trades) : m < n => pick[m] < pick[n]

\* A run has returned with one order filled, which is its only trade, and
\* one order that was tried and is still pending.
C37_Witness ==
    /\ pc = "idle"
    /\ result.status = "returned"
    /\ Len(result.trades) = 1
    /\ \E k \in OrderIds :
          /\ orders[k].status = "pending"
          /\ trace[k].attempts > 0

\* C38: in every metrics report winning_trades + losing_trades is at most
\* floor(total_trades / 2), and win_rate is at most 1/2.
C38_WinRateAtMostHalf ==
    result.status = "metrics" =>
        LET m == result.metrics
        IN  /\ m.winning_trades + m.losing_trades <= m.total_trades \div 2
            /\ m.win_rate.op = "exact"
            /\ RLe(m.win_rate.args[1], Rat(1, 2))

\* A report over four filled orders that pair into two winning round trips:
\* win_rate is exactly 1/2.
C38_Witness ==
    /\ result.status = "metrics"
    /\ result.metrics.total_trades = 4
    /\ result.metrics.winning_trades = 2
    /\ result.metrics.win_rate = Exact(Rat(1, 2))

NoPrice(order) == order.order_type = LIMIT /\ order.price = None

\* C39: a LIMIT order placed without a price never fills.  It is pending in
\* every state; an attempt of it changes no order, no cash and no position
\* and the order loop goes on to the next order; the run returns its result.
C39_LimitWithoutPrice ==
    /\ [](\A k \in OrderIds :
            NoPrice(orders[k]) =>
               /\ orders[k].status = "pending"
               /\ orders[k].filled_quantity = 0
               /\ trace[k].outcomes \subseteq {"error"})
    /\ [][(pc = "execute" /\ pc' = "execute" /\ i' = i /\ NoPrice(orders[cursor])) =>
            /\ orders' = orders
            /\ current_capital' = current_capital
            /\ positions' = positions
            /\ cursor' = cursor + 1]_vars
    /\ [](\A r \in 1..Len(runs) :
            runs[r].data # <<>> =>
               /\ runs[r].result.status = "returned"
               /\ Len(runs[r].result.equity_curve) = MaxTime)

\* A LIMIT BUY without a price was tried at a step and is pending; the
\* MARKET BUY placed after it was filled at that same step, and the run has
\* returned.
C39_Witness ==
    /\ pc = "idle"
    /\ result.status = "returned"
    /\ Len(orders) = 2
    /\ NoPrice(orders[1])
    /\ orders[1].side = BUY
    /\ "error" \in trace[1].outcomes
    /\ trace[1].attempts = MaxTime - trace[1].placed_step
    /\ orders[2].order_type = MARKET
    /\ orders[2].status = "filled"
    /\ trace[2].placed_step = trace[1].placed_step
    /\ trace[2].filled_step = trace[1].placed_step + 1

====
